---- MODULE Spec2Model ----
(***************************************************************************)
(* Model of the clipboard core of ClipScribe Plus:                         *)
(*   core/clipboard_manager.py  ClipboardItem, ClipboardManager            *)
(*   core/plugin_manager.py     Plugin, PluginManager                      *)
(*   ui/main_window.py, ui/app.py  the handlers that drive the two         *)
(* Snapshots (ClipboardItem objects) are identified by their allocation    *)
(* number; snap[id] holds the mutable fields of the object.                *)
(***************************************************************************)
EXTENDS Integers, Sequences, FiniteSets, TLC

\* ---------------------------------------------------------------- bounds
MaxHistoryBound == 3     \* largest max_history handed to the constructor
MaxRecord == 4           \* ClipboardItem objects allocated when only the watcher runs
MaxSnap == 2             \* ClipboardItem objects allocated when the user commands run too
MaxCopy == 2             \* a user copy needs an undo_stack shorter than this
MaxUndo == 4             \* longest undo_stack a redo may build
MaxRedo == 1             \* longest redo_stack an undo may build
MaxChord == 3            \* components of a chord string
MaxWorkers == 2          \* callback threads running at a time
MaxEdit == 3             \* ClipboardItem objects allocated when the list commands run
MaxListeners == 3        \* an add_clipboard_change_listener needs a list shorter than this

DefaultMaxHistory == 100 \* ClipboardManager.__init__(max_history=100)
DefaultInterval == 500   \* start_monitoring(interval=0.5), in milliseconds

Texts == {"a", "b"}      \* text values other applications put on the clipboard
PyImage == "pyimage"     \* str() of an ImageTk.PhotoImage, what Tk appends for it

None == 0                \* Python None where a snapshot id is expected
Raised == -1             \* the call left by an exception
PyTrue == -2             \* True and False where last.ret holds them next to
PyFalse == -3            \* snapshot ids

NoContent == [kind |-> "none", value |-> ""]
ImageContent == [kind |-> "image", value |-> PyImage]
TextContent(t) == [kind |-> "text", value |-> t]

\* what the OS clipboard can hold
ClipValues == {NoContent, ImageContent} \cup {TextContent(t) : t \in Texts}

VARIABLES
  \* ClipboardManager
  max_history, history, current_index, undo_stack, redo_stack,
  snap,            \* snap[id] = [content_type, content] of ClipboardItem id
  clipboard,       \* the OS clipboard behind self.clipboard
  monitor_alive,   \* monitor_thread is not None and is_alive()
  last_content,    \* local of _monitor_clipboard
  \* history of the run, for stating the properties
  last,            \* the last operation: [op, arg, ret]; utop, the top of
                   \* undo_stack before a copy; rtop, of redo_stack before a
                   \* record; n, the length of the stack an undo or redo found;
                   \* read, what an iteration of the watcher's loop read
  chain, chain_items, \* progress through copy(s1); copy(s2); undo; redo
  recorded,        \* the snapshots recorded so far, in recording order
  \* the background loops and the application
  interval,        \* args of monitor_thread: the interval of the loop started last
  loops,           \* threads inside _monitor_clipboard
  stop_set,        \* the Event bound to self.stop_monitoring is set
  listener,        \* HotkeyManager.listener: "none", "created", "running", "stopped"
  active,          \* HotkeyManager.active
  pynput_available,\* PYNPUT_AVAILABLE of core/hotkeys.py
  exited,          \* sys.exit(0) has been reached
  emitted,         \* the running loop has emitted a snapshot
  last_text,       \* the text read for the last text snapshot the running loop emitted
  \* PluginManager
  plugins,         \* self.plugins: identifier -> instance (None when absent)
  enabled_plugins, \* self.enabled_plugins, a dict in insertion order
  next_inst,       \* plugin objects constructed so far
  \* history of the plugin calls, for stating the properties
  plast,           \* the last registry call, see PRec
  order,           \* the on_clipboard_change calls of a notify just made, in call order
  enable_ok,       \* identifiers whose plugin enable() has returned True
  before,          \* <<a, b>>: a entered the enabled set before b, both in it
  was_before,      \* every pair that has been in before
  \* listeners of the watcher and the HotkeyManager
  callbacks,       \* on_clipboard_change_callbacks, in subscription order
  hotkeys,         \* self.hotkeys: a dict in insertion order of [id, inst]
                   \* with id the '+'-joined key and inst the callback
  current_keys,    \* self.current_keys: the key strings held down
  workers,         \* callbacks running in their threads, oldest first
  hlast,           \* the last call or key event of the HotkeyManager
  \* calls in progress, where the steps of two threads interleave
  adding,          \* the watcher thread inside _add_to_history: where it is,
                   \* the item it is recording and what it read
  editing,         \* the UI thread inside _delete_selected or
                   \* _move_selected_to_top: where it is, the handler, its
                   \* locals history_index (1-based) and item
  notifying,       \* the watcher thread inside notify_clipboard_change: the
                   \* dict iterator (the size of the dict when it was made,
                   \* the entries passed), the plugins called so far and
                   \* those enabled when the loop began
  loading          \* per thread its call of load_plugin or enable_plugin: where
                   \* it is, the identifier, the local `plugin`; once it has
                   \* returned, the identifier and the instance it got

histVars == <<max_history, history, current_index, undo_stack, redo_stack,
              snap, clipboard, monitor_alive, last_content>>
ghostVars == <<last, chain, chain_items, recorded>>
lifeVars == <<interval, loops, stop_set, listener, active, pynput_available,
              exited, emitted, last_text>>
plugVars == <<plugins, enabled_plugins, next_inst>>
plugGhost == <<plast, order, enable_ok, before, was_before>>
routeVars == <<callbacks, hotkeys, current_keys, workers, hlast>>
threadVars == <<adding, editing, notifying, loading>>
vars == <<histVars, ghostVars, lifeVars, plugVars, plugGhost, routeVars, threadVars>>

\* ------------------------------------------------------------- sequences
Top(s) == IF s = <<>> THEN None ELSE s[Len(s)]
Front(s) == SubSeq(s, 1, Len(s) - 1)
Min(a, b) == IF a < b THEN a ELSE b
LastN(s, n) == SubSeq(s, Len(s) - n + 1, Len(s))
\* del s[i] (1-based)
DelAt(s, i) == SubSeq(s, 1, i - 1) \o SubSeq(s, i + 1, Len(s))
InSeq(s, x) == \E i \in 1..Len(s) : s[i] = x
FirstIdx(s, x) == CHOOSE i \in 1..Len(s) : s[i] = x /\ \A j \in 1..(i - 1) : s[j] # x
\* list.remove(x): the first occurrence
ListRemove(s, x) == IF InSeq(s, x) THEN DelAt(s, FirstIdx(s, x)) ELSE s

\* ------------------------------------------------ ClipboardManager state
\* the fields of the manager the operations read and write
Mgr == [history |-> history, current_index |-> current_index,
        undo_stack |-> undo_stack, redo_stack |-> redo_stack,
        clipboard |-> clipboard]

\* as _add_to_history, but over capacity it drops the newest entry: pop()
add_to_history_pop_newest(m, cap, item) ==
  LET appended == Append(m.history, item)
      h == IF Len(appended) > cap THEN Front(appended) ELSE appended
  IN [m EXCEPT !.redo_stack = <<>>,
               !.history = h,
               !.current_index = Len(h) - 1]

\* as _add_to_history, without redo_stack.clear()
add_to_history_keep_redo(m, cap, item) ==
  LET appended == Append(m.history, item)
      h == IF Len(appended) > cap THEN Tail(appended) ELSE appended
  IN [m EXCEPT !.history = h,
               !.current_index = Len(h) - 1]

\* _add_to_history(item)
add_to_history(m, cap, item) ==
  LET appended == Append(m.history, item)
      h == IF Len(appended) > cap THEN Tail(appended) ELSE appended
  IN [m EXCEPT !.redo_stack = <<>>,
               !.history = h,
               !.current_index = Len(h) - 1]

\* as copy_to_clipboard, but moving the item to the end of history
copy_to_clipboard_moves_to_top(m, sn, item) ==
  LET c == IF sn[item].content_type = "text" THEN TextContent(sn[item].content)
           ELSE IF sn[item].content_type = "image" THEN TextContent(PyImage)
           ELSE m.clipboard
  IN [m EXCEPT !.clipboard = c,
               !.undo_stack = Append(@, item),
               !.history = Append(SelectSeq(@, LAMBDA x : x # item), item)]

\* copy_to_clipboard(item): clipboard_clear(); clipboard_append(item.content)
copy_to_clipboard(m, sn, item) ==
  LET c == IF sn[item].content_type = "text" THEN TextContent(sn[item].content)
           ELSE IF sn[item].content_type = "image" THEN TextContent(PyImage)
           ELSE m.clipboard
  IN [m EXCEPT !.clipboard = c,
               !.undo_stack = Append(@, item)]

\* as undo, but returning the entry it popped
undo_returns_popped(m, sn) ==
  IF m.undo_stack = <<>> THEN [m |-> m, ret |-> None]
  ELSE LET item == Top(m.undo_stack)
           m1 == [m EXCEPT !.undo_stack = Front(@),
                           !.redo_stack = Append(@, item)]
       IN IF m1.undo_stack # <<>>
          THEN [m |-> copy_to_clipboard(m1, sn, Top(m1.undo_stack)),
                ret |-> item]
          ELSE [m |-> m1, ret |-> None]

\* as undo, without the guard: pop() on an empty list raises IndexError
undo_unguarded(m, sn) ==
  IF m.undo_stack = <<>> THEN [m |-> m, ret |-> Raised]
  ELSE LET item == Top(m.undo_stack)
           m1 == [m EXCEPT !.undo_stack = Front(@),
                           !.redo_stack = Append(@, item)]
       IN IF m1.undo_stack # <<>>
          THEN [m |-> copy_to_clipboard(m1, sn, Top(m1.undo_stack)),
                ret |-> Top(m1.undo_stack)]
          ELSE [m |-> m1, ret |-> None]

\* as undo, but dropping the only entry instead of moving it to redo_stack
undo_drops_last(m, sn) ==
  IF m.undo_stack = <<>> THEN [m |-> m, ret |-> None]
  ELSE LET item == Top(m.undo_stack)
           m1 == [m EXCEPT !.undo_stack = Front(@),
                           !.redo_stack = Append(@, item)]
       IN IF m1.undo_stack # <<>>
          THEN [m |-> copy_to_clipboard(m1, sn, Top(m1.undo_stack)),
                ret |-> Top(m1.undo_stack)]
          ELSE [m |-> [m EXCEPT !.undo_stack = <<>>], ret |-> None]

\* undo(): the manager afterwards and the value returned
undo(m, sn) ==
  IF m.undo_stack = <<>> THEN [m |-> m, ret |-> None]
  ELSE LET item == Top(m.undo_stack)
           m1 == [m EXCEPT !.undo_stack = Front(@),
                           !.redo_stack = Append(@, item)]
       IN IF m1.undo_stack # <<>>
          THEN [m |-> copy_to_clipboard(m1, sn, Top(m1.undo_stack)),
                ret |-> Top(m1.undo_stack)]
          ELSE [m |-> m1, ret |-> None]

\* as redo, but without writing the item back to the clipboard
redo_without_apply(m, sn) ==
  IF m.redo_stack = <<>> THEN [m |-> m, ret |-> None]
  ELSE LET item == Top(m.redo_stack)
           m1 == [m EXCEPT !.redo_stack = Front(@),
                           !.undo_stack = Append(@, item)]
       IN [m |-> m1, ret |-> item]

\* redo()
redo(m, sn) ==
  IF m.redo_stack = <<>> THEN [m |-> m, ret |-> None]
  ELSE LET item == Top(m.redo_stack)
           m1 == [m EXCEPT !.redo_stack = Front(@),
                           !.undo_stack = Append(@, item)]
       IN [m |-> copy_to_clipboard(m1, sn, item), ret |-> item]

\* --------------------------------------------------------- PluginManager
PluginIds == {"p1", "p2", "p3"}   \* the module names discover_plugins() lists

\* what a plugin's on_clipboard_change may do with the item
ChangeOutcomes == {"ok", "raise", "rewrite"}

\* TextFormatterPlugin._auto_capitalize on the texts of the model
Format(t) == IF t = "a" THEN "A" ELSE IF t = "b" THEN "B" ELSE t

\* the rewriting of another plugin, one that lower-cases the text
Fold(t) == IF t = "A" THEN "a" ELSE IF t = "B" THEN "b" ELSE t

\* what a plugin's on_clipboard_change may do in a chain of plugins: return,
\* raise, capitalize, lower-case, or capitalize and then raise
PipeOutcomes == {"ok", "raise", "rewrite", "fold", "rewrite_raise"}

\* on_clipboard_change left by an exception
Raises(act) == act \in {"raise", "rewrite_raise"}

\* the item after on_clipboard_change(item) of a plugin doing act:
\* item.content = text, for a text item only
Effect(act, item) ==
  IF item.content_type # "text" THEN item
  ELSE IF act \in {"rewrite", "rewrite_raise"} THEN [item EXCEPT !.content = Format(@)]
  ELSE IF act = "fold" THEN [item EXCEPT !.content = Fold(@)]
  ELSE item

EnabledIds(en) == {en[i].id : i \in 1..Len(en)}

\* notify_clipboard_change(item): one try/except around every call.
\* acc = [content, order, raised, seen, acts]: the item as the plugins left
\* it, the plugins called, whether notify raised, the item as each plugin
\* received it and what each did; beh[id] is what plugin id does this time.
RECURSIVE NotifyLoop(_, _, _, _)
NotifyLoop(en, i, beh, acc) ==
  IF i > Len(en) THEN acc
  ELSE LET id == en[i].id
           c == Effect(beh[id], acc.content)
       IN NotifyLoop(en, i + 1, beh,
                     [acc EXCEPT !.content = c, !.order = Append(@, id),
                                 !.seen = Append(@, acc.content),
                                 !.acts = Append(@, beh[id])])

\* as notify_clipboard_change, with no try/except around the call: the first
\* exception ends the loop and leaves notify
RECURSIVE NotifyLoopUnguarded(_, _, _, _)
NotifyLoopUnguarded(en, i, beh, acc) ==
  IF i > Len(en) THEN acc
  ELSE LET id == en[i].id
           c == Effect(beh[id], acc.content)
           acc1 == [acc EXCEPT !.content = c, !.order = Append(@, id),
                               !.seen = Append(@, acc.content),
                               !.acts = Append(@, beh[id])]
       IN IF Raises(beh[id]) THEN [acc1 EXCEPT !.raised = TRUE]
          ELSE NotifyLoopUnguarded(en, i + 1, beh, acc1)

notify_clipboard_change_unguarded(en, beh, item) ==
  NotifyLoopUnguarded(en, 1, beh, [content |-> item, order |-> <<>>, raised |-> FALSE,
                                   seen |-> <<>>, acts |-> <<>>])

\* as notify_clipboard_change, but every plugin is given a copy of the item
notify_clipboard_change_on_copies(en, beh, item) ==
  [content |-> item, order |-> [i \in 1..Len(en) |-> en[i].id], raised |-> FALSE,
   seen |-> [i \in 1..Len(en) |-> item],
   acts |-> [i \in 1..Len(en) |-> beh[en[i].id]]]

notify_clipboard_change(en, beh, item) ==
  NotifyLoop(en, 1, beh, [content |-> item, order |-> <<>>, raised |-> FALSE,
                          seen |-> <<>>, acts |-> <<>>])

CountIn(s, x) == Cardinality({i \in 1..Len(s) : s[i] = x})

\* the fields of the registry
Reg == [plugins |-> plugins, enabled_plugins |-> enabled_plugins,
        next_inst |-> next_inst]

LoadOutcomes == {"ok", "not_found", "no_class"}
CallOutcomes == {"true", "false", "raise"}     \* of Plugin.enable / disable

\* as load_plugin, without the test for an instance already in self.plugins
load_plugin_rebuilds(r, id, lo) ==
  IF lo \in {"ok", "none"}
  THEN [r |-> [r EXCEPT !.plugins[id] = r.next_inst + 1,
                        !.next_inst = r.next_inst + 1],
        ret |-> r.next_inst + 1, built |-> TRUE]
  ELSE [r |-> r, ret |-> None, built |-> FALSE]

\* load_plugin(module_name): the registry afterwards and the instance returned
load_plugin(r, id, lo) ==
  IF r.plugins[id] # None THEN [r |-> r, ret |-> r.plugins[id], built |-> FALSE]
  ELSE IF lo = "ok"
       THEN [r |-> [r EXCEPT !.plugins[id] = r.next_inst + 1,
                             !.next_inst = r.next_inst + 1],
             ret |-> r.next_inst + 1, built |-> TRUE]
       ELSE [r |-> r, ret |-> None, built |-> FALSE]

\* as DictSet, but an assignment to a key already present moves it to the end
DictSetMovesToEnd(d, id, inst) ==
  Append(SelectSeq(d, LAMBDA e : e.id # id), [id |-> id, inst |-> inst])

\* d[key] = value on a dict kept as a sequence of [id, inst] in insertion order
DictSet(d, id, inst) ==
  IF \E i \in 1..Len(d) : d[i].id = id
  THEN [i \in 1..Len(d) |-> IF d[i].id = id THEN [id |-> id, inst |-> inst] ELSE d[i]]
  ELSE Append(d, [id |-> id, inst |-> inst])

\* del d[key]
DictDel(d, id) == SelectSeq(d, LAMBDA e : e.id # id)

\* as enable_plugin, without the test of what the plugin's enable() returned
enable_plugin_ignores_result(r, id, lo, eo) ==
  LET ld == IF r.plugins[id] # None
            THEN [r |-> r, ret |-> r.plugins[id], built |-> FALSE]
            ELSE load_plugin(r, id, lo)
  IN IF ld.ret = None
     THEN [r |-> ld.r, ret |-> "False", built |-> FALSE, called |-> "none"]
     ELSE IF eo = "raise"
          THEN [r |-> ld.r, ret |-> "False", built |-> ld.built, called |-> eo]
          ELSE [r |-> [ld.r EXCEPT !.enabled_plugins = DictSet(@, id, ld.ret)],
                ret |-> IF eo = "true" THEN "True" ELSE "False",
                built |-> ld.built, called |-> eo]

\* as enable_plugin, but a plugin that is not loaded is not loaded on demand
enable_plugin_without_load(r, id, lo, eo) ==
  IF r.plugins[id] = None
  THEN [r |-> r, ret |-> "False", built |-> FALSE, called |-> "none"]
  ELSE IF eo = "true"
       THEN [r |-> [r EXCEPT !.enabled_plugins = DictSet(@, id, r.plugins[id])],
             ret |-> "True", built |-> FALSE, called |-> eo]
       ELSE [r |-> r, ret |-> "False", built |-> FALSE, called |-> eo]

\* as enable_plugin, but the plugin is put into enabled_plugins before its
\* enable() is called
enable_plugin_registers_first(r, id, lo, eo) ==
  LET ld == IF r.plugins[id] # None
            THEN [r |-> r, ret |-> r.plugins[id], built |-> FALSE]
            ELSE load_plugin(r, id, lo)
  IN IF ld.ret = None
     THEN [r |-> ld.r, ret |-> "False", built |-> FALSE, called |-> "none"]
     ELSE [r |-> [ld.r EXCEPT !.enabled_plugins = DictSet(@, id, ld.ret)],
           ret |-> IF eo = "true" THEN "True" ELSE "False",
           built |-> ld.built, called |-> eo]

\* enable_plugin(module_name); eo is what the plugin's enable() does if called
enable_plugin(r, id, lo, eo) ==
  LET ld == IF r.plugins[id] # None
            THEN [r |-> r, ret |-> r.plugins[id], built |-> FALSE]
            ELSE load_plugin(r, id, lo)
  IN IF ld.ret = None
     THEN [r |-> ld.r, ret |-> "False", built |-> FALSE, called |-> "none"]
     ELSE IF eo = "true"
          THEN [r |-> [ld.r EXCEPT !.enabled_plugins = DictSet(@, id, ld.ret)],
                ret |-> "True", built |-> ld.built, called |-> eo]
          ELSE [r |-> ld.r, ret |-> "False", built |-> ld.built, called |-> eo]

\* as disable_plugin, but the plugin is taken out of enabled_plugins before
\* its disable() is called
disable_plugin_removes_first(r, id, do) ==
  IF r.plugins[id] = None THEN [r |-> r, ret |-> "False", called |-> "none"]
  ELSE IF id \notin EnabledIds(r.enabled_plugins)
       THEN [r |-> r, ret |-> "True", called |-> "none"]
       ELSE [r |-> [r EXCEPT !.enabled_plugins = DictDel(@, id)],
             ret |-> IF do = "true" THEN "True" ELSE "False", called |-> do]

\* disable_plugin(module_name); do is what the plugin's disable() does if called
disable_plugin(r, id, do) ==
  IF r.plugins[id] = None THEN [r |-> r, ret |-> "False", called |-> "none"]
  ELSE IF id \notin EnabledIds(r.enabled_plugins)
       THEN [r |-> r, ret |-> "True", called |-> "none"]
       ELSE IF do = "true"
            THEN [r |-> [r EXCEPT !.enabled_plugins = DictDel(@, id)],
                  ret |-> "True", called |-> do]
            ELSE [r |-> r, ret |-> "False", called |-> do]

\* shutdown(): over list(self.enabled_plugins.items()), on_shutdown() then
\* disable_plugin() inside one try. acc = [r, shut, disabled]
RECURSIVE ShutdownLoop(_, _, _, _, _)
ShutdownLoop(items, i, so, do, acc) ==
  IF i > Len(items) THEN acc
  ELSE LET id == items[i].id
           acc1 == [acc EXCEPT !.shut = Append(@, id)]
       IN IF so[id] = "raise"
          THEN ShutdownLoop(items, i + 1, so, do, acc1)
          ELSE LET d == disable_plugin(acc1.r, id, do[id])
               IN ShutdownLoop(items, i + 1, so, do,
                               [acc1 EXCEPT !.r = d.r,
                                            !.disabled = Append(@, id)])

\* as shutdown, with no try/except in the loop: the first exception ends it
RECURSIVE ShutdownLoopUnguarded(_, _, _, _, _)
ShutdownLoopUnguarded(items, i, so, do, acc) ==
  IF i > Len(items) THEN acc
  ELSE LET id == items[i].id
           acc1 == [acc EXCEPT !.shut = Append(@, id)]
       IN IF so[id] = "raise"
          THEN [acc1 EXCEPT !.raised = TRUE]
          ELSE LET d == disable_plugin(acc1.r, id, do[id])
               IN ShutdownLoopUnguarded(items, i + 1, so, do,
                                        [acc1 EXCEPT !.r = d.r,
                                                     !.disabled = Append(@, id)])

shutdown_unguarded(r, so, do) ==
  ShutdownLoopUnguarded(r.enabled_plugins, 1, so, do,
                        [r |-> r, shut |-> <<>>, disabled |-> <<>>, raised |-> FALSE])

shutdown(r, so, do) ==
  ShutdownLoop(r.enabled_plugins, 1, so, do,
               [r |-> r, shut |-> <<>>, disabled |-> <<>>, raised |-> FALSE])

\* ------------------------------------------------------------ the watcher
\* the fields of the manager and of its thread that start and stop touch
Watch == [monitor_alive |-> monitor_alive, loops |-> loops, interval |-> interval,
          stop_set |-> stop_set, last_content |-> last_content]

\* as start_monitoring, without the test for a live monitor_thread
start_monitoring_unguarded(w, iv) ==
  [w |-> [w EXCEPT !.stop_set = FALSE, !.monitor_alive = TRUE,
                   !.loops = @ + 1, !.interval = iv,
                   !.last_content = NoContent],
   started |-> TRUE, ret |-> None]

\* start_monitoring(interval): the new thread enters _monitor_clipboard with
\* last_content = None
start_monitoring(w, iv) ==
  IF w.monitor_alive THEN [w |-> w, started |-> FALSE, ret |-> None]
  ELSE [w |-> [w EXCEPT !.stop_set = FALSE, !.monitor_alive = TRUE,
                        !.loops = @ + 1, !.interval = iv,
                        !.last_content = NoContent],
        started |-> TRUE, ret |-> None]

\* what self.stop_monitoring evaluates to on an instance: __init__ binds the
\* instance attribute stop_monitoring to a threading.Event, and an instance
\* attribute is found before the method of the class
StopMonitoringAttr == "event"

\* the body of the method stop_monitoring of the class; joined: the thread
\* left its loop within the 2 seconds of join(timeout=2.0)
stop_monitoring_method(w, joined) ==
  IF ~w.monitor_alive THEN [w |-> w, ret |-> None]
  ELSE [w |-> [w EXCEPT !.stop_set = TRUE,
                        !.monitor_alive = ~joined,
                        !.loops = IF joined THEN @ - 1 ELSE @],
        ret |-> None]

\* the call self.stop_monitoring(): calling an Event raises TypeError
stop_monitoring(w, joined) ==
  IF StopMonitoringAttr = "event" THEN [w |-> w, ret |-> Raised]
  ELSE stop_monitoring_method(w, joined)

\* ----------------------------------------------------------- HotkeyManager
Hk == [listener |-> listener, active |-> active]

StartOutcomes == {"ok", "ctor_raise", "start_raise"}  \* of keyboard.Listener

\* HotkeyManager.start()
hotkey_start(h, avail, out) ==
  IF ~avail THEN [h |-> h, ret |-> PyFalse]
  ELSE IF h.active THEN [h |-> h, ret |-> PyTrue]
  ELSE IF out = "ok"
       THEN [h |-> [listener |-> "running", active |-> TRUE], ret |-> PyTrue]
       ELSE IF out = "start_raise"
            THEN [h |-> [h EXCEPT !.listener = "created"], ret |-> PyFalse]
            ELSE [h |-> h, ret |-> PyFalse]

\* HotkeyManager.stop()
hotkey_stop(h) ==
  IF h.listener # "none" /\ h.active
  THEN [h |-> [listener |-> "stopped", active |-> FALSE], ret |-> None]
  ELSE [h |-> h, ret |-> None]

\* ------------------------------------------------ listeners of the watcher
\* the callables subscribed to the watcher: "plugins" is
\* plugin_manager.notify_clipboard_change, "window" the main window's
\* _on_clipboard_change, "extra" any other callable
ListenerIds == {"plugins", "window", "extra"}
ListenerOutcomes == {"ok", "raise"}     \* of one call of a listener
ListenerBehaviours == [ListenerIds \ {"plugins"} -> ListenerOutcomes]
AllOk == [l \in ListenerIds \ {"plugins"} |-> "ok"]

\* as add_clipboard_change_listener, without the membership test
add_listener_always(cbs, cb) == Append(cbs, cb)

\* add_clipboard_change_listener(callback)
add_clipboard_change_listener(cbs, cb) ==
  IF InSeq(cbs, cb) THEN cbs ELSE Append(cbs, cb)

\* remove_clipboard_change_listener(callback)
remove_clipboard_change_listener(cbs, cb) ==
  IF InSeq(cbs, cb) THEN ListRemove(cbs, cb) ELSE cbs

\* the for loop over on_clipboard_change_callbacks: one try/except around
\* every call. acc = [content, order, raised, calls, raisers, escaped]:
\* the item as the listeners left it, the plugin calls and whether notify
\* raised, the listeners called in call order, those that raised, and whether
\* an exception left the loop
RECURSIVE CallbackLoop(_, _, _, _, _, _)
CallbackLoop(cbs, i, en, beh, lbeh, acc) ==
  IF i > Len(cbs) THEN acc
  ELSE LET cb == cbs[i]
           n == notify_clipboard_change(en, beh, acc.content)
           acc1 == IF cb = "plugins"
                   THEN [acc EXCEPT !.content = n.content,
                                    !.order = @ \o n.order,
                                    !.raised = n.raised,
                                    !.seen = @ \o n.seen,
                                    !.acts = @ \o n.acts,
                                    !.calls = Append(@, cb)]
                   ELSE [acc EXCEPT !.calls = Append(@, cb),
                                    !.raisers = IF lbeh[cb] = "raise"
                                                THEN @ \cup {cb} ELSE @]
       IN CallbackLoop(cbs, i + 1, en, beh, lbeh, acc1)

\* as CallbackLoop, with no try/except around the call: the first exception
\* leaves the loop
RECURSIVE CallbackLoopUnguarded(_, _, _, _, _, _)
CallbackLoopUnguarded(cbs, i, en, beh, lbeh, acc) ==
  IF i > Len(cbs) THEN acc
  ELSE LET cb == cbs[i]
           n == notify_clipboard_change(en, beh, acc.content)
           acc1 == IF cb = "plugins"
                   THEN [acc EXCEPT !.content = n.content,
                                    !.order = @ \o n.order,
                                    !.raised = n.raised,
                                    !.seen = @ \o n.seen,
                                    !.acts = @ \o n.acts,
                                    !.calls = Append(@, cb)]
                   ELSE [acc EXCEPT !.calls = Append(@, cb),
                                    !.raisers = IF lbeh[cb] = "raise"
                                                THEN @ \cup {cb} ELSE @]
       IN IF cb # "plugins" /\ lbeh[cb] = "raise"
          THEN [acc1 EXCEPT !.escaped = TRUE]
          ELSE CallbackLoopUnguarded(cbs, i + 1, en, beh, lbeh, acc1)

notify_callbacks_unguarded(cbs, en, beh, lbeh, item) ==
  CallbackLoopUnguarded(cbs, 1, en, beh, lbeh,
                        [content |-> item, order |-> <<>>, raised |-> FALSE,
                         seen |-> <<>>, acts |-> <<>>,
                         calls |-> <<>>, raisers |-> {}, escaped |-> FALSE])

\* the notification of the listeners in _monitor_clipboard
notify_callbacks(cbs, en, beh, lbeh, item) ==
  CallbackLoop(cbs, 1, en, beh, lbeh,
               [content |-> item, order |-> <<>>, raised |-> FALSE,
                seen |-> <<>>, acts |-> <<>>,
                calls |-> <<>>, raisers |-> {}, escaped |-> FALSE])

\* as emit_snapshot, but calling the listeners before _add_to_history
emit_notifies_first(m, cap, id, cbs, en, beh, lbeh, item) ==
  LET n == notify_callbacks(cbs, en, beh, lbeh, item)
  IN [m |-> add_to_history(m, cap, id), n |-> n,
      events |-> n.calls \o <<"record">>,
      htop |-> Top(m.history), rlen |-> Len(m.redo_stack)]

\* _monitor_clipboard, once a change is detected: self._add_to_history(clip_item)
\* and then the for loop over the listeners. The manager afterwards, the
\* result n of the loop, the calls in the order made, and the newest entry of
\* history and the length of redo_stack as the listeners find them
emit_snapshot(m, cap, id, cbs, en, beh, lbeh, item) ==
  LET m1 == add_to_history(m, cap, id)
      n == notify_callbacks(cbs, en, beh, lbeh, item)
  IN [m |-> m1, n |-> n,
      events |-> <<"record">> \o n.calls,
      htop |-> Top(m1.history), rlen |-> Len(m1.redo_stack)]

\* ------------------------------------------- HotkeyManager: the bindings
\* A string without '+' is a record [name, case, pad]: a key name, written in
\* lower or in upper case, with or without blanks around it. A string with
\* '+' signs is the sequence of its components, which is what split("+")
\* gives and what "+".join() takes.
KeyNames == {"c", "ctrl", "shift"}
Cases == {"lower", "upper"}
Parts == [name : KeyNames, case : Cases, pad : BOOLEAN]

\* the chord strings handed to register_hotkey: written tight ("Ctrl+C") or
\* with blanks around the '+' signs ("shift + alt + T")
Chords ==
  UNION {{c \in [1..n -> Parts] : \A i \in 1..n : c[i].pad = c[1].pad} :
           n \in 1..MaxChord}

\* the order of str: a blank sorts before every letter, an upper-case letter
\* before every lower-case one, "c" before "ctrl" before "shift"
NameRank(n) == IF n = "c" THEN 1 ELSE IF n = "ctrl" THEN 2 ELSE 3
SortKey(p) ==
  (IF p.pad THEN 0 ELSE 100) + (IF p.case = "upper" THEN 0 ELSE 10) + NameRank(p.name)

Strip(p) == [p EXCEPT !.pad = FALSE]        \* str.strip()
Lower(p) == [p EXCEPT !.case = "lower"]     \* str.lower()

\* sorted(list)
RECURSIVE Sorted(_)
Sorted(s) ==
  IF s = <<>> THEN <<>>
  ELSE LET rest == Sorted(Front(s))
           p == s[Len(s)]
           k == Cardinality({i \in 1..Len(rest) : SortKey(rest[i]) <= SortKey(p)})
       IN SubSeq(rest, 1, k) \o <<p>> \o SubSeq(rest, k + 1, Len(rest))

\* sorted(set)
RECURSIVE SortedSet(_)
SortedSet(S) ==
  IF S = {} THEN <<>>
  ELSE LET m == CHOOSE x \in S : \A y \in S : SortKey(x) <= SortKey(y)
       IN <<m>> \o SortedSet(S \ {m})

\* as _normalize_key_combo, without lower()
normalize_keeps_case(keys) ==
  Sorted([i \in 1..Len(keys) |-> Strip(keys[i])])

\* _normalize_key_combo(keys)
normalize_key_combo(keys) ==
  Sorted([i \in 1..Len(keys) |-> Lower(Strip(keys[i]))])

\* the callables bound to chords
CallbackIds == {"f1", "f2"}

DictHas(d, id) == \E i \in 1..Len(d) : d[i].id = id
DictGet(d, id) == d[CHOOSE i \in 1..Len(d) : d[i].id = id].inst

\* as register_hotkey, with the chord string itself as the key
register_hotkey_unnormalized(hk, avail, keys, cb) ==
  IF ~avail THEN [hotkeys |-> hk, ret |-> PyFalse]
  ELSE [hotkeys |-> DictSet(hk, keys, cb), ret |-> PyTrue]

\* register_hotkey(keys, callback): the dict afterwards and the result
register_hotkey(hk, avail, keys, cb) ==
  IF ~avail THEN [hotkeys |-> hk, ret |-> PyFalse]
  ELSE [hotkeys |-> DictSet(hk, normalize_key_combo(keys), cb), ret |-> PyTrue]

\* unregister_hotkey(keys)
unregister_hotkey(hk, keys) ==
  LET key_combo == normalize_key_combo(keys)
  IN IF DictHas(hk, key_combo)
     THEN [hotkeys |-> DictDel(hk, key_combo), ret |-> PyTrue]
     ELSE [hotkeys |-> hk, ret |-> PyFalse]

\* _key_to_string(key): key.name of a special key is the lower-case name of
\* the enum member; key.char of a character key is the character the
\* keyboard produced, in either case
KeyStrings ==
  {p \in Parts : ~p.pad /\ (p.name \in {"ctrl", "shift"} => p.case = "lower")}

\* "+".join(sorted(self.current_keys))
current_combo(keys) == SortedSet(keys)

\* as matched_hotkey, but a key-down of a key already held is ignored
matched_hotkey_debounced(hk, held, k) ==
  LET combo == current_combo(held \cup {k})
  IN IF k.name # "" /\ k \notin held /\ DictHas(hk, combo) THEN combo ELSE <<>>

\* as matched_hotkey, but matching a binding whose keys are all held
matched_hotkey_subset(hk, held, k) ==
  LET cands == {i \in 1..Len(hk) :
                  {hk[i].id[j] : j \in 1..Len(hk[i].id)} \subseteq held \cup {k}}
  IN IF k.name # "" /\ cands # {}
     THEN hk[CHOOSE i \in cands : \A j \in cands : i <= j].id
     ELSE <<>>

\* _on_press: the key of self.hotkeys found for the keys held once k is
\* added, <<>> when `current_combo in self.hotkeys` is false or the key
\* event has no string
matched_hotkey(hk, held, k) ==
  LET combo == current_combo(held \cup {k})
  IN IF k.name # "" /\ DictHas(hk, combo) THEN combo ELSE <<>>

\* as start_worker, but the callback is called in the handler itself
call_inline(ws, cb, combo) ==
  Append(ws, [cb |-> cb, combo |-> combo, inline |-> TRUE])

\* threading.Thread(target=self._run_callback, args=(callback, current_combo),
\* daemon=True).start(): the threads running afterwards; inline tells whether
\* the caller waits for the callback
start_worker(ws, cb, combo) ==
  Append(ws, [cb |-> cb, combo |-> combo, inline |-> FALSE])

\* as _run_callback, with an exception of the callback stopping the listener
run_callback_stops_listener(h, out) ==
  IF out = "raise" THEN [listener |-> "stopped", active |-> FALSE] ELSE h

\* _run_callback(callback, hotkey) with a callback that returns or raises:
\* the listener afterwards
run_callback(h, out) == h

SetWatch(w) ==
  /\ monitor_alive' = w.monitor_alive
  /\ loops' = w.loops
  /\ interval' = w.interval
  /\ stop_set' = w.stop_set
  /\ last_content' = w.last_content

\* one read of the loop body: clipboard_get(), then clipboard_get(type='image')
ReadClipboard(textFails, imageFails) ==
  IF clipboard.kind = "text" /\ ~textFails THEN clipboard
  ELSE IF clipboard.kind = "image" /\ ~imageFails THEN clipboard
  ELSE NoContent

\* the condition of the if in _monitor_clipboard
Emits(cur, lastc) ==
  /\ cur.kind # "none"
  /\ \/ lastc = NoContent
     \/ (cur.kind = "text" /\ cur # lastc)
     \/ cur.kind = "image"

\* as the assignment to last_content, but an image leaves it as it is
NextLastContentKeeps(cur) == IF cur.kind = "text" THEN cur ELSE last_content

\* last_content = current_content if content_type == 'text' else None
NextLastContent(cur) == IF cur.kind = "text" THEN cur ELSE NoContent

NewItem(cur) == [content_type |-> cur.kind, content |-> cur.value]

\* ------------------------------------------------------- run history
SetMgr(m) ==
  /\ history' = m.history
  /\ current_index' = m.current_index
  /\ undo_stack' = m.undo_stack
  /\ redo_stack' = m.redo_stack
  /\ clipboard' = m.clipboard

\* the handlers that call copy_to_clipboard(item) on an item of the list
CopyOps == {"copy", "paste", "dblclick"}

\* what an operation logs besides its result: the row index a list command
\* was given (-1 when none), the listeners a record called and those that
\* raised, the callable given to add or remove; for a record the calls in
\* the order made, the newest entry of history and the length of redo_stack
\* the listeners found and, where the plugin calls are followed one by one,
\* the item each plugin received and what it did
NoExtra == [idx |-> None - 1, calls |-> <<>>, raisers |-> {}, cb |-> "",
            events |-> <<>>, htop |-> None, rlen |-> 0,
            seen |-> <<>>, acts |-> <<>>]

LogWith(op, arg, ret, cur, x) ==
  /\ last' = [op |-> op, arg |-> arg, ret |-> ret, read |-> cur,
               idx |-> x.idx, calls |-> x.calls, raisers |-> x.raisers,
               cb |-> x.cb,
               events |-> x.events, htop |-> x.htop, rlen |-> x.rlen,
               seen |-> x.seen, acts |-> x.acts,
               utop |-> IF op \in CopyOps THEN Top(undo_stack) ELSE None,
               rtop |-> IF op = "record" THEN Top(redo_stack) ELSE None,
               n |-> IF op = "undo" THEN Len(undo_stack)
                     ELSE IF op = "redo" THEN Len(redo_stack)
                     ELSE IF op \in {"add_listener", "remove_listener"}
                     THEN CountIn(callbacks, x.cb) ELSE 0]
  /\ chain' = IF op = "copy" THEN (IF chain \in {1, 2} THEN 2 ELSE 1)
              ELSE IF op = "undo" /\ chain = 2 THEN 3
              ELSE IF op = "redo" /\ chain = 3 THEN 4
              ELSE 0
  /\ chain_items' = IF op = "copy"
                    THEN (IF chain \in {1, 2} THEN <<chain_items[2], arg>>
                          ELSE <<None, arg>>)
                    ELSE IF (op = "undo" /\ chain = 2) \/ (op = "redo" /\ chain = 3)
                    THEN chain_items
                    ELSE <<None, None>>

LogRead(op, arg, ret, cur) == LogWith(op, arg, ret, cur, NoExtra)

Log(op, arg, ret) == LogRead(op, arg, ret, NoContent)

SetReg(r) ==
  /\ plugins' = r.plugins
  /\ enabled_plugins' = r.enabled_plugins
  /\ next_inst' = r.next_inst

\* bookkeeping of a registry call that leads to registry r
PlugLog(rec, r) ==
  LET old == EnabledIds(enabled_plugins)
      new == EnabledIds(r.enabled_plugins)
  IN /\ plast' = rec
     /\ before' = {p \in before : p[1] \in new /\ p[2] \in new}
                    \cup ((old \cap new) \X (new \ old))
     /\ was_before' = was_before \cup before'

PlugUnchanged == UNCHANGED <<plugVars, plugGhost>>
HistUnchanged == UNCHANGED <<histVars, ghostVars, lifeVars>>
RouteUnchanged == UNCHANGED <<routeVars, threadVars>>

\* a registry call: the operation, its identifier and result; the instance
\* load returned and whether it was constructed now; whether the plugin's
\* enable()/disable() was called and with what outcome; the outcomes lo, eo
\* the environment chose; the plugins that raised in a notify or whose
\* on_shutdown() raised in a shutdown; whether the disable() of every plugin
\* enabled at a shutdown was set to return True
PRec(op, id, ret) ==
  [op |-> op, id |-> id, ret |-> ret, inst |-> None, built |-> FALSE,
   called |-> "none", lo |-> "none", eo |-> "none", raisers |-> {},
   alltrue |-> FALSE]

\* _key_to_string(key) returned None
NoKey == [name |-> "", case |-> "lower", pad |-> FALSE]

\* a call or key event of the HotkeyManager: the chord string given and the
\* key it was stored under, the callback, the result; for a key event the
\* key string, the combination looked up, whether a thread was started, and
\* whether the step before was the end of a thread whose callback, the one
\* started now, had raised; for the end of a thread whether its callback raised;
\* for a key-down that started a thread whether the key was already held
HRec(op) ==
  [op |-> op, chord |-> <<>>, key |-> <<>>, cb |-> "", ret |-> None,
   k |-> NoKey, combo |-> <<>>, started |-> FALSE, raised |-> FALSE,
   after_raise |-> FALSE, repeat |-> FALSE]

\* no call of _add_to_history in progress; none of a list handler
AddIdle == [pc |-> "idle", item |-> None, cur |-> NoContent]
EditIdle == [pc |-> "idle", op |-> "", hidx |-> 0, item |-> None]
\* the threads that load plugins: the one ClipScribeApp.__init__ starts for
\* _load_plugins, and the Tk thread (_refresh_plugin_list, the plugin dialog)
Threads == {"loader", "ui"}
LoadIdle == [pc |-> "idle", id |-> "", inst |-> None, enable |-> FALSE]
NotifyIdle == [pc |-> "idle", used |-> 0, pos |-> 0, called |-> <<>>, init |-> {}]

\* ------------------------------------------------------------------ Init
\* ClipboardManager.__init__(max_history), PluginManager.__init__ and
\* HotkeyManager.__init__, for a max_history setting among caps and
\* PYNPUT_AVAILABLE among avail
InitBase(caps, avail) ==
  /\ max_history \in caps
  /\ history = <<>>
  /\ current_index = -1
  /\ undo_stack = <<>>
  /\ redo_stack = <<>>
  /\ snap = <<>>
  /\ clipboard = NoContent
  /\ monitor_alive = FALSE
  /\ last_content = NoContent
  /\ last = [op |-> "init", arg |-> None, ret |-> None, read |-> NoContent,
             idx |-> NoExtra.idx, calls |-> <<>>, raisers |-> {}, cb |-> "",
             events |-> <<>>, htop |-> None, rlen |-> 0,
             seen |-> <<>>, acts |-> <<>>,
             utop |-> None,
             rtop |-> None, n |-> 0]
  /\ chain = 0
  /\ chain_items = <<None, None>>
  /\ recorded = <<>>
  /\ plugins = [id \in PluginIds |-> None]
  /\ enabled_plugins = <<>>
  /\ next_inst = 0
  /\ plast = PRec("init", "", "None")
  /\ order = <<>>
  /\ enable_ok = {}
  /\ before = {}
  /\ was_before = {}
  /\ interval = None
  /\ loops = 0
  /\ stop_set = FALSE
  /\ listener = "none"
  /\ active = FALSE
  /\ pynput_available \in avail
  /\ exited = FALSE
  /\ emitted = FALSE
  /\ last_text = ""
  /\ callbacks = <<"plugins", "window">>
  /\ hotkeys = <<>>
  /\ current_keys = {}
  /\ workers = <<>>
  /\ hlast = HRec("init")
  /\ adding = AddIdle
  /\ editing = EditIdle
  /\ notifying = NotifyIdle
  /\ loading = [t \in Threads |-> LoadIdle]

\* an installation with pynput
InitWith(caps) == InitBase(caps, {TRUE})

Init == InitWith(1..MaxHistoryBound)

\* ------------------------------------------------- ClipboardManager steps
\* start_monitoring(iv)
StartMonitoring(iv) ==
  /\ LET st == start_monitoring(Watch, iv)
     IN /\ SetWatch(st.w)
        /\ emitted' = IF st.started THEN FALSE ELSE emitted
        /\ last_text' = IF st.started THEN "" ELSE last_text
        /\ Log(IF st.started THEN "start" ELSE "start_running", iv, st.ret)
  /\ UNCHANGED <<max_history, history, current_index, undo_stack, redo_stack,
                 snap, clipboard, recorded,
                 listener, active, pynput_available, exited>>
  /\ PlugUnchanged
  /\ RouteUnchanged

\* another application puts c on the OS clipboard
SetOsClipboard(c) ==
  /\ c # clipboard
  /\ clipboard' = c
  /\ Log("env", None, None)
  /\ UNCHANGED <<max_history, history, current_index, undo_stack, redo_stack,
                 snap, monitor_alive, last_content, recorded, lifeVars>>
  /\ PlugUnchanged
  /\ RouteUnchanged

\* one iteration of the while loop of _monitor_clipboard whose reads raise
\* nothing but tk.TclError; lbeh is what each listener does when called;
\* detail tells whether the log follows the plugin calls one by one
WatcherTickLog(textFails, imageFails, beh, lbeh, maxItems, detail) ==
  /\ monitor_alive
  /\ ~stop_set
  /\ LET cur == ReadClipboard(textFails, imageFails)
     IN IF Emits(cur, last_content)
        THEN /\ Len(snap) < maxItems
             /\ LET id == Len(snap) + 1
                    e == emit_snapshot(Mgr, max_history, id, callbacks,
                                       enabled_plugins, beh, lbeh, NewItem(cur))
                    n == e.n
                IN /\ snap' = Append(snap, n.content)
                   /\ SetMgr(e.m)
                   /\ recorded' = Append(recorded, id)
                   /\ IF InSeq(n.calls, "plugins")
                      THEN /\ order' = n.order
                           /\ PlugLog([PRec("notify", "",
                                            IF n.raised THEN "Raised" ELSE "None")
                                         EXCEPT !.raisers =
                                           {p \in DOMAIN beh : Raises(beh[p])}],
                                       Reg)
                      ELSE UNCHANGED plugGhost
                   /\ LogWith("record", id, None, cur,
                              [NoExtra EXCEPT
                                 !.calls = n.calls,
                                 !.raisers = n.raisers,
                                 !.events = e.events,
                                 !.htop = e.htop,
                                 !.rlen = e.rlen,
                                 !.seen = IF detail THEN n.seen ELSE <<>>,
                                 !.acts = IF detail THEN n.acts ELSE <<>>])
                   \* an exception that leaves the for loop leaves the while loop
                   /\ monitor_alive' = ~n.escaped
                   /\ loops' = IF n.escaped THEN loops - 1 ELSE loops
                   /\ last_content' = IF n.escaped THEN last_content
                                      ELSE NextLastContent(cur)
             /\ emitted' = TRUE
             /\ last_text' = IF cur.kind = "text" THEN cur.value ELSE last_text
        ELSE /\ LogRead("tick", None, None, cur)
             /\ UNCHANGED <<history, current_index, undo_stack, redo_stack, snap,
                            clipboard, last_content, recorded, plugGhost,
                            emitted, last_text, monitor_alive, loops>>
  /\ UNCHANGED <<max_history, plugVars, enable_ok, interval,
                 stop_set, listener, active, pynput_available, exited>>
  /\ RouteUnchanged

\* an iteration logged by its result alone
WatcherTickWith(textFails, imageFails, beh, lbeh, maxItems) ==
  WatcherTickLog(textFails, imageFails, beh, lbeh, maxItems, FALSE)

\* an iteration with listeners that return
WatcherTick(textFails, imageFails, beh, maxItems) ==
  WatcherTickWith(textFails, imageFails, beh, AllOk, maxItems)

\* an iteration whose clipboard_get() raises an exception that is not a
\* tk.TclError: no except clause of the inner try matches, the exception
\* leaves the while loop and the thread ends in the outer handler
WatcherReadError ==
  /\ monitor_alive
  /\ ~stop_set
  /\ monitor_alive' = FALSE
  /\ loops' = loops - 1
  /\ Log("read_error", None, Raised)
  /\ UNCHANGED <<max_history, history, current_index, undo_stack, redo_stack,
                 snap, clipboard, last_content, recorded, interval, stop_set,
                 listener, active, pynput_available, exited, emitted, last_text>>
  /\ PlugUnchanged
  /\ RouteUnchanged

\* a caller subscribes cb; n of the log is how often cb was in the list
AddClipboardChangeListener(cb) ==
  /\ Len(callbacks) < MaxListeners
  /\ callbacks' = add_clipboard_change_listener(callbacks, cb)
  /\ LogWith("add_listener", None, None, NoContent, [NoExtra EXCEPT !.cb = cb])
  /\ UNCHANGED <<histVars, recorded, lifeVars, hotkeys, current_keys, workers,
                 hlast, threadVars>>
  /\ PlugUnchanged

\* a caller unsubscribes cb
RemoveClipboardChangeListener(cb) ==
  /\ callbacks' = remove_clipboard_change_listener(callbacks, cb)
  /\ LogWith("remove_listener", None, None, NoContent, [NoExtra EXCEPT !.cb = cb])
  /\ UNCHANGED <<histVars, recorded, lifeVars, hotkeys, current_keys, workers,
                 hlast, threadVars>>
  /\ PlugUnchanged

\* as HistoryIndex, for a list box that shows the oldest entry first
HistoryIndexOldestFirst(index) == index + 1

\* history index of row `index` of the list box (newest first), 1-based
HistoryIndex(index) == Len(history) - index
InRange(index) == HistoryIndex(index) >= 1 /\ HistoryIndex(index) <= Len(history)

UiFrame == /\ UNCHANGED <<max_history, snap, monitor_alive, last_content, recorded,
                          lifeVars>>
           /\ PlugUnchanged
           /\ RouteUnchanged

\* MainWindow._copy_selected
CopySelected(index) ==
  /\ Len(undo_stack) < MaxCopy
  /\ IF InRange(index)
     THEN LET item == history[HistoryIndex(index)]
          IN /\ SetMgr(copy_to_clipboard(Mgr, snap, item))
             /\ Log("copy", item, None)
     ELSE /\ SetMgr(Mgr)
          /\ Log("no_item", None, None)
  /\ UiFrame

\* ClipScribeApp.paste_last_item
PasteLastItem ==
  /\ Len(undo_stack) < MaxCopy
  /\ IF history # <<>>
     THEN /\ SetMgr(copy_to_clipboard(Mgr, snap, Top(history)))
          /\ Log("paste", Top(history), None)
     ELSE /\ SetMgr(Mgr)
          /\ Log("no_item", None, None)
  /\ UiFrame

\* MainWindow._on_item_double_clicked; toTop is the last_used_to_top setting
ItemDoubleClicked(index, toTop) ==
  /\ Len(undo_stack) < MaxCopy
  /\ IF InRange(index)
     THEN LET item == history[HistoryIndex(index)]
              m == copy_to_clipboard(Mgr, snap, item)
          IN /\ SetMgr(IF toTop
                       THEN [m EXCEPT !.history = Append(ListRemove(@, item), item)]
                       ELSE m)
             /\ Log("dblclick", item, None)
     ELSE /\ SetMgr(Mgr)
          /\ Log("no_item", None, None)
  /\ UiFrame

\* MainWindow._delete_selected with row `index` selected; the log holds the
\* row and the entry deleted, None when the handler did nothing
DeleteSelected(index) ==
  /\ IF InRange(index)
     THEN /\ SetMgr([Mgr EXCEPT !.history = DelAt(@, HistoryIndex(index))])
          /\ LogWith("delete", history[HistoryIndex(index)], None, NoContent,
                     [NoExtra EXCEPT !.idx = index])
     ELSE /\ SetMgr(Mgr)
          /\ LogWith("delete", None, None, NoContent, [NoExtra EXCEPT !.idx = index])
  /\ UiFrame

\* MainWindow._move_selected_to_top
MoveSelectedToTop(index) ==
  /\ IF InRange(index)
     THEN LET item == history[HistoryIndex(index)]
          IN /\ SetMgr([Mgr EXCEPT !.history =
                          Append(DelAt(@, HistoryIndex(index)), item)])
             /\ LogWith("totop", item, None, NoContent,
                        [NoExtra EXCEPT !.idx = index])
     ELSE /\ SetMgr(Mgr)
          /\ LogWith("totop", None, None, NoContent, [NoExtra EXCEPT !.idx = index])
  /\ UiFrame

\* MainWindow._clear_history
ClearHistory ==
  /\ SetMgr([Mgr EXCEPT !.history = <<>>])
  /\ Log("clear", None, None)
  /\ UiFrame

\* MainWindow._undo -> ClipboardManager.undo
Undo ==
  /\ undo_stack = <<>> \/ Len(redo_stack) < MaxRedo
  /\ LET u == undo(Mgr, snap)
     IN /\ SetMgr(u.m)
        /\ Log("undo", None, u.ret)
  /\ UiFrame

\* MainWindow._redo -> ClipboardManager.redo
Redo ==
  /\ redo_stack = <<>> \/ Len(undo_stack) + 2 <= MaxUndo
  /\ LET r == redo(Mgr, snap)
     IN /\ SetMgr(r.m)
        /\ Log("redo", None, r.ret)
  /\ UiFrame

Behaviours == [EnabledIds(enabled_plugins) -> ChangeOutcomes]

\* the watcher, the copy commands and undo/redo
NextHistory ==
  \/ StartMonitoring(DefaultInterval)
  \/ \E c \in ClipValues : SetOsClipboard(c)
  \/ \E tf \in BOOLEAN, imf \in BOOLEAN, beh \in Behaviours :
       WatcherTick(tf, imf, beh, MaxSnap)
  \/ \E i \in 0..MaxSnap : CopySelected(i)
  \/ PasteLastItem
  \/ Undo
  \/ Redo

\* with MaxSnap snapshots every max_history above MaxSnap acts as the default
InitHistory == InitWith({1, DefaultMaxHistory})

SpecHistory == InitHistory /\ [][NextHistory]_vars

\* the watcher alone: every change of history is a record()
NextRecord ==
  \/ StartMonitoring(DefaultInterval)
  \/ \E c \in ClipValues : SetOsClipboard(c)
  \/ \E tf \in BOOLEAN, imf \in BOOLEAN, beh \in Behaviours :
       WatcherTick(tf, imf, beh, MaxRecord)

SpecRecord == Init /\ [][NextRecord]_vars

\* the watcher with its listeners: reads that raise any exception,
\* listeners that raise, callers that subscribe and unsubscribe
NextListeners ==
  \/ StartMonitoring(DefaultInterval)
  \/ \E c \in ClipValues : SetOsClipboard(c)
  \/ \E tf \in BOOLEAN, imf \in BOOLEAN, beh \in Behaviours,
        lbeh \in ListenerBehaviours :
       WatcherTickWith(tf, imf, beh, lbeh, MaxSnap)
  \/ WatcherReadError
  \/ \E cb \in ListenerIds : AddClipboardChangeListener(cb)
  \/ \E cb \in ListenerIds : RemoveClipboardChangeListener(cb)

SpecListeners == InitWith({DefaultMaxHistory}) /\ [][NextListeners]_vars

\* the watcher with reads that succeed, the commands that edit the history
\* list, copy, undo and redo; other applications put text on the clipboard;
\* the row selected is one of the list or the one past its end
NextEdit ==
  \/ StartMonitoring(DefaultInterval)
  \/ \E t \in Texts : SetOsClipboard(TextContent(t))
  \/ \E beh \in Behaviours : WatcherTick(FALSE, TRUE, beh, MaxSnap)
  \/ \E i \in 0..Len(history) : CopySelected(i)
  \/ \E i \in 0..Len(history) : DeleteSelected(i)
  \/ \E i \in 0..Len(history) : MoveSelectedToTop(i)
  \/ ClearHistory
  \/ Undo
  \/ Redo

SpecEdit == InitWith({DefaultMaxHistory}) /\ [][NextEdit]_vars

\* the watcher and the commands that edit the history list
NextList ==
  \/ StartMonitoring(DefaultInterval)
  \/ \E t \in Texts : SetOsClipboard(TextContent(t))
  \/ \E beh \in Behaviours : WatcherTick(FALSE, TRUE, beh, MaxEdit)
  \/ \E i \in 0..MaxEdit : DeleteSelected(i)
  \/ \E i \in 0..MaxEdit : MoveSelectedToTop(i)
  \/ ClearHistory

SpecList == InitHistory /\ [][NextList]_vars

\* -------------------------------------------------- the background loops
Intervals == {DefaultInterval, 2 * DefaultInterval}

LifeFrame == /\ UNCHANGED <<max_history, history, current_index, undo_stack,
                            redo_stack, snap, clipboard, recorded>>
             /\ UNCHANGED <<pynput_available, emitted, last_text>>

\* a call self.clipboard_manager.stop_monitoring()
StopMonitoring(joined) ==
  /\ LET st == stop_monitoring(Watch, joined)
     IN /\ SetWatch(st.w)
        /\ Log("stop", None, st.ret)
  /\ UNCHANGED <<listener, active, exited>>
  /\ LifeFrame
  /\ PlugUnchanged
  /\ RouteUnchanged

\* the end of MainWindow._apply_immediate_settings: stop_monitoring(), then
\* start_monitoring(interval=iv); an exception of the first leaves the handler
ApplyImmediateSettings(iv, joined) ==
  /\ LET st == stop_monitoring(Watch, joined)
         go == start_monitoring(st.w, iv)
     IN IF st.ret = Raised
        THEN /\ SetWatch(st.w)
             /\ Log("restart", iv, Raised)
             /\ UNCHANGED <<emitted, last_text>>
        ELSE /\ SetWatch(go.w)
             /\ Log("restart", iv, None)
             /\ emitted' = IF go.started THEN FALSE ELSE emitted
             /\ last_text' = IF go.started THEN "" ELSE last_text
  /\ UNCHANGED <<max_history, history, current_index, undo_stack, redo_stack,
                 snap, clipboard, recorded, pynput_available, listener, active,
                 exited>>
  /\ PlugUnchanged
  /\ RouteUnchanged

\* HotkeyManager.start()
HotkeyStart(out) ==
  /\ LET hs == hotkey_start(Hk, pynput_available, out)
     IN /\ listener' = hs.h.listener
        /\ active' = hs.h.active
        /\ Log("hotkey_start", None, hs.ret)
  /\ UNCHANGED <<monitor_alive, last_content, interval, loops, stop_set, exited>>
  /\ LifeFrame
  /\ PlugUnchanged
  /\ RouteUnchanged

\* HotkeyManager.stop()
HotkeyStop ==
  /\ LET hs == hotkey_stop(Hk)
     IN /\ listener' = hs.h.listener
        /\ active' = hs.h.active
        /\ Log("hotkey_stop", None, hs.ret)
  /\ UNCHANGED <<monitor_alive, last_content, interval, loops, stop_set, exited>>
  /\ LifeFrame
  /\ PlugUnchanged
  /\ RouteUnchanged

\* ---------------------------------------------------- HotkeyManager steps
HotFrame ==
  /\ UNCHANGED <<histVars, ghostVars, interval, loops, stop_set,
                 pynput_available, exited, emitted, last_text, callbacks,
                 threadVars>>
  /\ PlugUnchanged

\* _normalize_key_combo(c)
NormalizeKeyCombo(c) ==
  /\ hlast' = [HRec("normalize") EXCEPT !.chord = c, !.key = normalize_key_combo(c)]
  /\ UNCHANGED <<hotkeys, current_keys, workers, listener, active>>
  /\ HotFrame

\* register_hotkey(c, cb)
RegisterHotkey(c, cb) ==
  /\ LET r == register_hotkey(hotkeys, pynput_available, c, cb)
     IN /\ hotkeys' = r.hotkeys
        /\ hlast' = [HRec("register") EXCEPT !.key = normalize_key_combo(c),
                                             !.cb = cb, !.ret = r.ret]
  /\ UNCHANGED <<current_keys, workers, listener, active>>
  /\ HotFrame

\* unregister_hotkey(c)
UnregisterHotkey(c) ==
  /\ LET r == unregister_hotkey(hotkeys, c)
     IN /\ hotkeys' = r.hotkeys
        /\ hlast' = [HRec("unregister") EXCEPT !.key = normalize_key_combo(c),
                                               !.ret = r.ret]
  /\ UNCHANGED <<current_keys, workers, listener, active>>
  /\ HotFrame

\* the listener thread is inside a callback
Blocked == \E i \in 1..Len(workers) : workers[i].inline

\* _on_press(key) with _key_to_string(key) = k, called by a running listener
\* that is not inside an earlier handler
OnPress(k) ==
  /\ active
  /\ ~Blocked
  /\ LET keys == IF k = NoKey THEN current_keys ELSE current_keys \cup {k}
         combo == current_combo(keys)
         key == matched_hotkey(hotkeys, current_keys, k)
         hit == key # <<>>
         cb == IF hit THEN DictGet(hotkeys, key) ELSE ""
     IN /\ hit => Len(workers) < MaxWorkers
        /\ current_keys' = keys
        /\ workers' = IF hit THEN start_worker(workers, cb, key) ELSE workers
        /\ hlast' = [HRec("press") EXCEPT
                       !.k = k, !.combo = IF k = NoKey THEN <<>> ELSE combo,
                       !.started = hit, !.cb = cb,
                       !.repeat = hit /\ k \in current_keys,
                       !.after_raise = /\ hit
                                       /\ hlast.op = "worker_end"
                                       /\ hlast.raised
                                       /\ hlast.cb = cb]
  /\ UNCHANGED <<hotkeys, listener, active>>
  /\ HotFrame

\* _on_release(key)
OnRelease(k) ==
  /\ active
  /\ ~Blocked
  /\ current_keys' = current_keys \ {k}
  /\ hlast' = [HRec("release") EXCEPT !.k = k]
  /\ UNCHANGED <<hotkeys, workers, listener, active>>
  /\ HotFrame

\* the callback of thread i returns or raises and _run_callback ends
WorkerEnds(i, out) ==
  /\ i \in 1..Len(workers)
  /\ workers' = DelAt(workers, i)
  /\ LET h == run_callback(Hk, out)
     IN /\ listener' = h.listener
        /\ active' = h.active
  /\ hlast' = [HRec("worker_end") EXCEPT !.cb = workers[i].cb,
                                         !.raised = (out = "raise")]
  /\ UNCHANGED <<hotkeys, current_keys>>
  /\ HotFrame

CallbackOutcomes == {"return", "raise"}

\* the chord strings the callers of the model register: "ctrl+c" and
\* "ctrl+shift+c" as _setup_hotkeys writes them, in lower or in upper case
RegChords ==
  {c \in Chords : /\ \A i \in 1..Len(c) : ~c[i].pad /\ c[i].case = c[1].case
                  /\ [i \in 1..Len(c) |-> c[i].name] \in
                       {<<"ctrl", "c">>, <<"ctrl", "shift", "c">>}}

\* the HotkeyManager: callers register chords while the listener delivers
\* key events and the callbacks run in their threads
NextHotkeys ==
  \/ \E out \in StartOutcomes : HotkeyStart(out)
  \/ \E c \in RegChords, cb \in CallbackIds : RegisterHotkey(c, cb)
  \/ \E k \in KeyStrings \cup {NoKey} : OnPress(k)
  \/ \E k \in KeyStrings \cup {NoKey} : OnRelease(k)
  \/ \E i \in 1..MaxWorkers, out \in CallbackOutcomes : WorkerEnds(i, out)

SpecHotkeys == InitBase({DefaultMaxHistory}, BOOLEAN) /\ [][NextHotkeys]_vars

\* _normalize_key_combo on every chord string, and then on its own result
NextChord ==
  \/ hlast.op = "init" /\ \E c \in Chords : NormalizeKeyCombo(c)
  \/ hlast.op = "normalize" /\ NormalizeKeyCombo(hlast.key)

SpecChord == InitWith({DefaultMaxHistory}) /\ [][NextChord]_vars

\* load_plugin(id)
LoadPlugin(id, lo) ==
  LET l == load_plugin(Reg, id, lo)
  IN /\ SetReg(l.r)
     /\ PlugLog([PRec("load", id, "None") EXCEPT !.inst = l.ret, !.built = l.built,
                                                !.lo = lo], l.r)
     /\ order' = <<>>
     /\ UNCHANGED enable_ok
     /\ HistUnchanged
     /\ RouteUnchanged

\* enable_plugin(id)
EnablePlugin(id, lo, eo) ==
  LET e == enable_plugin(Reg, id, lo, eo)
  IN /\ SetReg(e.r)
     /\ PlugLog([PRec("enable", id, e.ret) EXCEPT !.built = e.built,
                                                 !.called = e.called,
                                                 !.lo = lo, !.eo = eo], e.r)
     /\ enable_ok' = IF eo = "true"
                     THEN enable_ok \cup {id} ELSE enable_ok
     /\ order' = <<>>
     /\ HistUnchanged
     /\ RouteUnchanged

\* disable_plugin(id)
DisablePlugin(id, do) ==
  LET d == disable_plugin(Reg, id, do)
  IN /\ SetReg(d.r)
     /\ PlugLog([PRec("disable", id, d.ret) EXCEPT !.called = d.called, !.eo = do], d.r)
     /\ order' = <<>>
     /\ UNCHANGED enable_ok
     /\ HistUnchanged
     /\ RouteUnchanged

\* notify_clipboard_change(x) for an item x
NotifyClipboardChange(x, beh) ==
  LET n == notify_clipboard_change(enabled_plugins, beh, NewItem(x))
  IN /\ order' = n.order
     /\ PlugLog([PRec("notify", "", IF n.raised THEN "Raised" ELSE "None")
                   EXCEPT !.raisers = {p \in DOMAIN beh : beh[p] = "raise"}], Reg)
     /\ UNCHANGED <<plugVars, enable_ok>>
     /\ HistUnchanged
     /\ RouteUnchanged

\* shutdown()
Shutdown(so, do) ==
  LET sd == shutdown(Reg, so, do)
  IN /\ SetReg(sd.r)
     /\ PlugLog([PRec("shutdown", "", IF sd.raised THEN "Raised" ELSE "None")
                   EXCEPT !.raisers = {p \in DOMAIN so : so[p] = "raise"},
                          !.alltrue = \A p \in DOMAIN do : do[p] = "true"], sd.r)
     /\ order' = sd.shut
     /\ UNCHANGED enable_ok
     /\ HistUnchanged
     /\ RouteUnchanged

\* the outcomes the environment decides in a call: none where the code does
\* not get to the import, or to the plugin's method
LoadChoices(id) == IF plugins[id] = None THEN LoadOutcomes ELSE {"none"}
EnableChoices(id, lo) ==
  IF plugins[id] # None \/ lo = "ok" THEN CallOutcomes ELSE {"none"}
DisableChoices(id) ==
  IF id \in EnabledIds(enabled_plugins) THEN CallOutcomes ELSE {"none"}
\* per enabled plugin: what its on_shutdown() does and what its disable()
\* does; the loop does not get to the disable() of a plugin whose
\* on_shutdown() raises
ShutdownChoices == {<<"raise", "true">>} \cup {<<"ok", d>> : d \in CallOutcomes}

NextPlugins ==
  \/ \E id \in PluginIds : \E lo \in LoadChoices(id) : LoadPlugin(id, lo)
  \/ \E id \in PluginIds : \E lo \in LoadChoices(id) :
       \E eo \in EnableChoices(id, lo) : EnablePlugin(id, lo, eo)
  \/ \E id \in PluginIds : \E do \in DisableChoices(id) : DisablePlugin(id, do)
  \/ \E x \in {TextContent("a"), ImageContent},
        beh \in [EnabledIds(enabled_plugins) -> {"ok", "raise"}] :
       NotifyClipboardChange(x, beh)
  \/ \E c \in ShutdownChoices :
       Shutdown([p \in EnabledIds(enabled_plugins) |-> c[1]],
                [p \in EnabledIds(enabled_plugins) |-> c[2]])

\* the registry alone, in an application built with the default max_history
InitPlugins == InitWith({DefaultMaxHistory})

SpecPlugins == InitPlugins /\ [][NextPlugins]_vars

\* the plugins whose chain the watcher runs
PipePlugins == {"p1", "p2"}

\* the application as __init__ leaves it (the registry subscribed first, the
\* window second): plugins are enabled, the watcher records what other
\* applications copy and every plugin does one of PipeOutcomes, the user
\* copies the newest entry back and undoes that
NextPipeline ==
  \/ \E id \in PipePlugins :
       EnablePlugin(id, IF plugins[id] = None THEN "ok" ELSE "none", "true")
  \/ ~monitor_alive /\ StartMonitoring(DefaultInterval)
  \/ \E c \in {TextContent("a"), ImageContent} : SetOsClipboard(c)
  \/ \E beh \in [EnabledIds(enabled_plugins) -> PipeOutcomes] :
       WatcherTickLog(FALSE, FALSE, beh, AllOk, MaxSnap, TRUE)
  \/ undo_stack = <<>> /\ redo_stack = <<>> /\ CopySelected(0)
  \/ undo_stack # <<>> /\ Undo

SpecPipeline == InitWith({DefaultMaxHistory}) /\ [][NextPipeline]_vars

\* ------------------------------------- the watcher and the UI, interleaved
\* ClipboardManager takes no lock and the handlers of the window run in the
\* Tk thread: the statements of _add_to_history (watcher thread) and of
\* _delete_selected / _move_selected_to_top (UI thread) interleave, each list
\* operation being one step.
RaceFrame ==
  /\ UNCHANGED <<max_history, undo_stack, clipboard, chain, chain_items,
                 interval, stop_set, listener, active, pynput_available, exited>>
  /\ PlugUnchanged
  /\ UNCHANGED <<routeVars, notifying, loading>>

\* _monitor_clipboard detects a change and enters _add_to_history:
\* self.redo_stack.clear(); self.history.append(item). No handler of the
\* list reads or writes redo_stack, so the two statements are one step.
AddAppend ==
  /\ monitor_alive
  /\ ~stop_set
  /\ adding.pc = "idle"
  /\ LET cur == ReadClipboard(FALSE, FALSE)
         id == Len(snap) + 1
     IN /\ Emits(cur, last_content)
        /\ Len(snap) < MaxSnap
        /\ snap' = Append(snap, NewItem(cur))
        /\ redo_stack' = <<>>
        /\ history' = Append(history, id)
        /\ adding' = [pc |-> "check", item |-> id, cur |-> cur]
  /\ UNCHANGED <<current_index, monitor_alive, last_content, last, recorded,
                 loops, emitted, last_text, editing>>
  /\ RaceFrame

\* if len(self.history) > self.max_history:
AddCheck ==
  /\ adding.pc = "check"
  /\ adding' = [adding EXCEPT !.pc = IF Len(history) > max_history
                                     THEN "pop" ELSE "index"]
  /\ UNCHANGED <<history, redo_stack, snap, current_index, monitor_alive,
                 last_content, last, recorded, loops, emitted, last_text, editing>>
  /\ RaceFrame

\* self.history.pop(0); on a list emptied meanwhile it raises IndexError,
\* which ends the loop in the outer handler of _monitor_clipboard
AddPop ==
  /\ adding.pc = "pop"
  /\ IF history = <<>>
     THEN /\ monitor_alive' = FALSE
          /\ loops' = loops - 1
          /\ adding' = AddIdle
          /\ UNCHANGED history
     ELSE /\ history' = Tail(history)
          /\ adding' = [adding EXCEPT !.pc = "index"]
          /\ UNCHANGED <<monitor_alive, loops>>
  /\ UNCHANGED <<redo_stack, snap, current_index, last_content, last, recorded,
                 emitted, last_text, editing>>
  /\ RaceFrame

\* self.current_index = len(self.history) - 1; back in the loop the
\* listeners are called and last_content is set
AddIndex ==
  /\ adding.pc = "index"
  /\ current_index' = Len(history) - 1
  /\ last_content' = NextLastContent(adding.cur)
  /\ recorded' = Append(recorded, adding.item)
  /\ emitted' = TRUE
  /\ last_text' = IF adding.cur.kind = "text" THEN adding.cur.value ELSE last_text
  /\ last' = [last EXCEPT !.op = "added", !.arg = adding.item, !.read = adding.cur]
  /\ adding' = AddIdle
  /\ UNCHANGED <<history, redo_stack, snap, monitor_alive, loops, editing>>
  /\ RaceFrame

\* the handlers of the list
EditOps == {"delete", "totop"}

\* _delete_selected or _move_selected_to_top with row `index` selected:
\* history_index = len(history) - 1 - index, and the range test, which
\* when false ends the handler
EditBegin(op, index) ==
  /\ editing.pc = "idle"
  /\ InRange(index)
  /\ editing' = [pc |-> IF op = "totop" THEN "read" ELSE "del", op |-> op,
                  hidx |-> HistoryIndex(index), item |-> None]
  /\ UNCHANGED <<history, redo_stack, snap, current_index, monitor_alive,
                 last_content, last, recorded, loops, emitted, last_text, adding>>
  /\ RaceFrame

\* item = history[history_index]; IndexError ends the handler
EditRead ==
  /\ editing.pc = "read"
  /\ editing' = IF editing.hidx > Len(history) THEN EditIdle
                 ELSE [editing EXCEPT !.pc = "del", !.item = history[editing.hidx]]
  /\ UNCHANGED <<history, redo_stack, snap, current_index, monitor_alive,
                 last_content, last, recorded, loops, emitted, last_text, adding>>
  /\ RaceFrame

\* del history[history_index]; the last statement of _delete_selected
EditDel ==
  /\ editing.pc = "del"
  /\ IF editing.hidx > Len(history)
     THEN /\ editing' = EditIdle
          /\ UNCHANGED <<history, last>>
     ELSE /\ history' = DelAt(history, editing.hidx)
          /\ IF editing.op = "totop"
             THEN /\ editing' = [editing EXCEPT !.pc = "append"]
                  /\ UNCHANGED last
             ELSE /\ editing' = EditIdle
                  /\ last' = [last EXCEPT !.op = "deleted",
                                          !.arg = history[editing.hidx],
                                          !.read = NoContent]
  /\ UNCHANGED <<redo_stack, snap, current_index, monitor_alive,
                 last_content, recorded, loops, emitted, last_text, adding>>
  /\ RaceFrame

\* history.append(item), the last list statement of _move_selected_to_top
EditAppend ==
  /\ editing.pc = "append"
  /\ history' = Append(history, editing.item)
  /\ editing' = EditIdle
  /\ last' = [last EXCEPT !.op = "moved", !.arg = editing.item, !.read = NoContent]
  /\ UNCHANGED <<redo_stack, snap, current_index, monitor_alive,
                 last_content, recorded, loops, emitted, last_text, adding>>
  /\ RaceFrame

\* other applications copy texts while the watcher records and the user
\* edits the list
NextRace ==
  \/ ~monitor_alive /\ StartMonitoring(DefaultInterval)
  \/ \E c \in {TextContent(t) : t \in Texts} : SetOsClipboard(c)
  \/ AddAppend
  \/ AddCheck
  \/ AddPop
  \/ AddIndex
  \/ \E op \in EditOps, index \in 0..MaxSnap : EditBegin(op, index)
  \/ EditRead
  \/ EditDel
  \/ EditAppend

SpecRace == InitHistory /\ [][NextRace]_vars

\* ------------------------------- notify and the registry calls, interleaved
\* PluginManager takes no lock: enable_plugin and disable_plugin (the plugin
\* loader thread, the UI thread) run between the steps of the for loop of
\* notify_clipboard_change (watcher thread).
NotifyFrame ==
  /\ UNCHANGED <<plugVars, enable_ok, adding, editing, loading>>
  /\ HistUnchanged
  /\ UNCHANGED routeVars

\* for plugin in self.enabled_plugins.values(): the iterator is made and
\* keeps the size of the dict
NotifyBegin ==
  /\ notifying.pc = "idle"
  /\ notifying' = [pc |-> "iter", used |-> Len(enabled_plugins), pos |-> 0,
                    called |-> <<>>, init |-> EnabledIds(enabled_plugins)]
  /\ UNCHANGED plugGhost
  /\ NotifyFrame

\* one step of the iterator: with the size of the dict changed it raises
\* RuntimeError, in the for statement and so outside the try of the loop
\* body, which ends notify; past the last entry the loop ends; otherwise the
\* body calls plugin.on_clipboard_change(item)
NotifyNext ==
  /\ notifying.pc = "iter"
  /\ IF Len(enabled_plugins) # notifying.used
     THEN /\ notifying' = NotifyIdle
          /\ order' = notifying.called
          /\ PlugLog(PRec("notify", "", "Raised"), Reg)
     ELSE IF notifying.pos >= Len(enabled_plugins)
     THEN /\ notifying' = NotifyIdle
          /\ order' = notifying.called
          /\ PlugLog(PRec("notify", "", "None"), Reg)
     ELSE /\ notifying' = [notifying EXCEPT
                             !.pos = @ + 1,
                             !.called = Append(@, enabled_plugins[notifying.pos + 1].id)]
          /\ UNCHANGED plugGhost
  /\ NotifyFrame

\* the size of the dict has not changed since the iterator was made. The
\* model follows a notify through one change of size, after which the
\* positions of a sequence are no longer those of the dict's entries.
SizeKept == notifying.pc = "iter" => Len(enabled_plugins) = notifying.used

\* enable_plugin and disable_plugin, of plugins that load and that agree,
\* run while notify is in its loop
NextNotifyRace ==
  \/ \E id \in PluginIds :
       /\ SizeKept
       /\ EnablePlugin(id, IF plugins[id] = None THEN "ok" ELSE "none", "true")
  \/ \E id \in EnabledIds(enabled_plugins) :
       SizeKept /\ DisablePlugin(id, "true")
  \/ NotifyBegin
  \/ NotifyNext

SpecNotifyRace == InitPlugins /\ [][NextNotifyRace]_vars

\* --------------------------------------- load_plugin in two threads at once
\* load_plugin tests `module_name in self.plugins`, constructs the plugin
\* and stores it, with no lock: the steps of two calls interleave.
LoadFrame ==
  /\ UNCHANGED <<plast, order, before, was_before, adding, editing, notifying>>
  /\ HistUnchanged
  /\ UNCHANGED routeVars

\* thread t calls load_plugin(id), or enable_plugin(id) when en:
\* plugin = self.plugins.get(module_name) / if module_name in self.plugins.
\* A cached instance is returned, or handed to the enabling
LoadBegin(t, id, en) ==
  /\ loading[t].pc = "idle"
  /\ loading' = [loading EXCEPT ![t] =
                   IF plugins[id] = None
                   THEN [pc |-> "build", id |-> id, inst |-> None, enable |-> en]
                   ELSE [pc |-> IF en THEN "enable" ELSE "idle", id |-> id,
                         inst |-> plugins[id], enable |-> en]]
  /\ UNCHANGED <<plugVars, enable_ok>>
  /\ LoadFrame

\* the module is imported and plugin = plugin_class(self.app) constructs a
\* new object
LoadBuild(t) ==
  /\ loading[t].pc = "build"
  /\ next_inst' = next_inst + 1
  /\ loading' = [loading EXCEPT ![t].pc = "store", ![t].inst = next_inst + 1]
  /\ UNCHANGED <<plugins, enabled_plugins, enable_ok>>
  /\ LoadFrame

\* self.plugins[module_name] = plugin; return plugin
LoadStore(t) ==
  /\ loading[t].pc = "store"
  /\ plugins' = [plugins EXCEPT ![loading[t].id] = loading[t].inst]
  /\ loading' = [loading EXCEPT ![t].pc = IF loading[t].enable THEN "enable"
                                          ELSE "idle"]
  /\ UNCHANGED <<enabled_plugins, next_inst, enable_ok>>
  /\ LoadFrame

\* enable_plugin: success = plugin.enable(); self.enabled_plugins[module_name]
\* = plugin, for a plugin whose enable() returns True
LoadEnable(t) ==
  /\ loading[t].pc = "enable"
  /\ enabled_plugins' = DictSet(enabled_plugins, loading[t].id, loading[t].inst)
  /\ enable_ok' = enable_ok \cup {loading[t].id}
  /\ loading' = [loading EXCEPT ![t].pc = "idle"]
  /\ UNCHANGED <<plugins, next_inst>>
  /\ LoadFrame

\* the plugin loader thread and the UI thread load and enable the plugins
NextLoadRace ==
  \/ \E t \in Threads, id \in PipePlugins, en \in BOOLEAN : LoadBegin(t, id, en)
  \/ \E t \in Threads : LoadBuild(t)
  \/ \E t \in Threads : LoadStore(t)
  \/ \E t \in Threads : LoadEnable(t)

SpecLoadRace == InitPlugins /\ [][NextLoadRace]_vars

\* plugins that load, enabled and disabled in any order, and shutdown() with
\* every outcome of each plugin's on_shutdown() and disable()
NextTeardown ==
  \/ \E id \in PluginIds : \E lo \in LoadChoices(id) \ {"not_found", "no_class"} :
       EnablePlugin(id, lo, "true")
  \/ \E id \in PluginIds : \E do \in DisableChoices(id) : DisablePlugin(id, do)
  \/ \E c \in [EnabledIds(enabled_plugins) -> ShutdownChoices] :
       Shutdown([p \in DOMAIN c |-> c[p][1]], [p \in DOMAIN c |-> c[p][2]])

SpecTeardown == InitPlugins /\ [][NextTeardown]_vars

\* -------------------------------------------------------- the application
\* ClipScribeApp.exit(): inside one try, stop_monitoring(), hotkey_manager
\* .stop() and plugin_manager.shutdown(); the first exception skips the rest;
\* sys.exit(0) in the finally
Exit(joined, so, do) ==
  /\ LET st == stop_monitoring(Watch, joined)
         hs == hotkey_stop(Hk)
         sd == shutdown(Reg, so, do)
         reached == st.ret # Raised
     IN /\ SetWatch(st.w)
        /\ listener' = IF reached THEN hs.h.listener ELSE listener
        /\ active' = IF reached THEN hs.h.active ELSE active
        /\ SetReg(IF reached THEN sd.r ELSE Reg)
        /\ PlugLog(PRec("exit", "", "None"), IF reached THEN sd.r ELSE Reg)
        /\ order' = IF reached THEN sd.shut ELSE <<>>
        /\ Log("exit", None, IF reached THEN None ELSE Raised)
  /\ exited' = TRUE
  /\ UNCHANGED enable_ok
  /\ LifeFrame
  /\ RouteUnchanged

\* the application from _start_services to exit(): both loops, the restart
\* of the watcher, plugins that load and enable, and exit()
NextLifecycle ==
  \/ ~exited /\ \E iv \in Intervals : StartMonitoring(iv)
  \/ ~exited /\ \E joined \in BOOLEAN : StopMonitoring(joined)
  \/ ~exited /\ \E iv \in Intervals, joined \in BOOLEAN :
                   ApplyImmediateSettings(iv, joined)
  \/ ~exited /\ \E out \in StartOutcomes : HotkeyStart(out)
  \/ ~exited /\ HotkeyStop
  \/ ~exited /\ \E t \in Texts : SetOsClipboard(TextContent(t))
  \/ ~exited /\ \E tf \in BOOLEAN :
                   WatcherTick(tf, TRUE, [p \in EnabledIds(enabled_plugins) |-> "ok"],
                               MaxSnap)
  \/ ~exited /\ \E id \in {"p1", "p2"} :
                   \E lo \in LoadChoices(id) \ {"not_found", "no_class"} :
                     EnablePlugin(id, lo, "true")
  \/ ~exited /\ \E joined \in BOOLEAN, c \in ShutdownChoices :
                   Exit(joined, [p \in EnabledIds(enabled_plugins) |-> c[1]],
                                [p \in EnabledIds(enabled_plugins) |-> c[2]])

InitLifecycle == InitBase({DefaultMaxHistory}, BOOLEAN)

SpecLifecycle == InitLifecycle /\ [][NextLifecycle]_vars

\* ============================================================ properties
\* ------------------------------------------------------------------- C1
\* C1: when only record() changes the history, after every call items holds
\* at most max_history entries and they are the last min(n, max_history)
\* recorded snapshots in recording order.
C1_RecordKeepsNewest ==
  /\ Len(history) <= max_history
  /\ history = LastN(recorded, Min(Len(recorded), max_history))

\* max_history = 3 and four records: the first was evicted
C1_Witness ==
  /\ max_history = 3
  /\ recorded = <<1, 2, 3, 4>>
  /\ history = <<2, 3, 4>>

\* ------------------------------------------------------------------- C2
\* C2: after record(s) the redo stack is empty, whatever it held before.
C2_RecordClearsRedo == last.op = "record" => redo_stack = <<>>

\* a record that found an entry on the redo stack
C2_Witness == last.op = "record" /\ last.rtop # None /\ redo_stack = <<>>

\* ------------------------------------------------------------------- C3
\* C3: copyToClipboard(s) followed immediately by undo() returns the entry
\* that was on top of the undo stack before the copy (nothing if it was
\* empty) and leaves s on top of the redo stack.
C3_CopyThenUndo ==
  [][(last.op \in CopyOps /\ last'.op = "undo")
       => (last'.ret = last.utop /\ Top(redo_stack') = last.arg)]_vars

\* copy(s1); copy(s2); undo() has returned s1 and moved s2 to the redo stack
C3_Witness ==
  /\ chain = 3
  /\ chain_items[1] # chain_items[2]
  /\ last.ret = chain_items[1]
  /\ Top(redo_stack) = chain_items[2]

\* ------------------------------------------------------------------- C4
\* C4: for text snapshots s1, s2, after copyToClipboard(s1);
\* copyToClipboard(s2); undo(); redo() the OS clipboard holds the content of
\* s2 and the redo() returned s2.
C4_RoundTrip ==
  (/\ chain = 4
   /\ snap[chain_items[1]].content_type = "text"
   /\ snap[chain_items[2]].content_type = "text")
  => /\ clipboard = TextContent(snap[chain_items[2]].content)
     /\ last.ret = chain_items[2]

\* the round trip over two snapshots of different text
C4_Witness ==
  /\ chain = 4
  /\ snap[chain_items[1]].content_type = "text"
  /\ snap[chain_items[2]].content_type = "text"
  /\ snap[chain_items[1]].content # snap[chain_items[2]].content

\* ------------------------------------------------------------------- C5
\* C5: undo() on undo stack U+[x] and redo stack R leaves U and R+[x];
\* redo() on redo stack R+[y] and undo stack U leaves R and U+[y].
C5_UndoRedoMirror ==
  [][/\ (last'.op = "undo" /\ undo_stack # <<>>)
          => /\ undo_stack' = Front(undo_stack)
             /\ redo_stack' = Append(redo_stack, Top(undo_stack))
     /\ (last'.op = "redo" /\ redo_stack # <<>>)
          => /\ redo_stack' = Front(redo_stack)
             /\ undo_stack' = Append(undo_stack, Top(redo_stack))]_vars

\* ------------------------------------------------------------------- C6
\* C6: undo() on an empty undo stack and redo() on an empty redo stack return
\* nothing, raise nothing and leave items, both stacks and the OS clipboard
\* as they were.
C6_EmptyStackNoop ==
  [][((last'.op = "undo" /\ undo_stack = <<>>)
        \/ (last'.op = "redo" /\ redo_stack = <<>>))
       => /\ last'.ret = None
          /\ UNCHANGED <<history, undo_stack, redo_stack, clipboard>>]_vars

\* an undo() that found the undo stack empty, with a history and a redo stack
C6_Witness ==
  /\ last.op = "undo"
  /\ last.n = 0
  /\ redo_stack # <<>>
  /\ history # <<>>

\* ------------------------------------------------------------------- C7
\* C7: one notify(x) calls on_clipboard_change(x) exactly once on every
\* enabled plugin, whichever of them raise, and returns without raising.
C7_NotifyReachesAll ==
  plast.op = "notify"
  => /\ \A id \in EnabledIds(enabled_plugins) : CountIn(order, id) = 1
     /\ Len(order) = Len(enabled_plugins)
     /\ plast.ret = "None"

\* three plugins notified although the first one called raised
C7_Witness ==
  /\ plast.op = "notify"
  /\ Len(order) = 3
  /\ order[1] \in plast.raisers

\* ------------------------------------------------------------------- C8
\* C8: notify calls the enabled plugins in the order in which they entered
\* the enabled set: a plugin disabled and enabled again comes after those
\* that stayed enabled, one enabled again while enabled keeps its place.
C8_NotifyInRegistrationOrder ==
  plast.op = "notify"
  => \A i \in 1..Len(order) : \A j \in 1..Len(order) :
       i < j => <<order[i], order[j]>> \in before

\* a notify that called b after a, where b once was in the set before a
C8_Witness ==
  /\ plast.op = "notify"
  /\ \E i \in 1..Len(order) : \E j \in 1..Len(order) :
       i < j /\ <<order[j], order[i]>> \in was_before

\* ------------------------------------------------------------------- C9
\* C9: every identifier in enabled is in loaded, with the same plugin
\* instance, and got there through an enable(id) whose plugin enable()
\* returned true.
C9_EnabledAreLoaded ==
  \A i \in 1..Len(enabled_plugins) :
    /\ plugins[enabled_plugins[i].id] # None
    /\ plugins[enabled_plugins[i].id] = enabled_plugins[i].inst
    /\ enabled_plugins[i].id \in enable_ok

\* an enable(id) whose plugin refused or raised, next to an enabled plugin
C9_Witness ==
  /\ plast.op = "enable"
  /\ plast.called \in {"false", "raise"}
  /\ plugins[plast.id] # None
  /\ plast.id \notin EnabledIds(enabled_plugins)
  /\ enabled_plugins # <<>>

\* ------------------------------------------------------------------ C10
\* C10: enable(id) on an identifier that is not loaded loads it and calls
\* the plugin's enable(); id is then enabled exactly when that call
\* returned true, and enable(id) returns the same. When the load fails,
\* enable(id) returns false, enable() is not called and loaded and enabled
\* stay as they were.
C10_EnableLoadsOnDemand ==
  [][(plast'.op = "enable" /\ plugins[plast'.id] = None)
       => IF plast'.lo = "ok"
          THEN /\ plugins'[plast'.id] # None
               /\ plast'.built
               /\ plast'.called # "none"
               /\ plast'.called = plast'.eo
               /\ (plast'.id \in EnabledIds(enabled_plugins')) <=> (plast'.eo = "true")
               /\ plast'.ret = (IF plast'.eo = "true" THEN "True" ELSE "False")
          ELSE /\ plast'.ret = "False"
               /\ plast'.called = "none"
               /\ plugins' = plugins
               /\ enabled_plugins' = enabled_plugins]_vars

\* an enable(id) that constructed the plugin and enabled it
C10_Witness ==
  /\ plast.op = "enable"
  /\ plast.built
  /\ plast.called = "true"
  /\ plast.ret = "True"
  /\ plast.id \in EnabledIds(enabled_plugins)

\* ------------------------------------------------------------------ C11
\* the registry after the step
RegAfter == [plugins |-> plugins', enabled_plugins |-> enabled_plugins',
             next_inst |-> next_inst']

\* C11 as stated: when the plugin's enable() raises, enable(id) returns
\* false, the enabled set is what it was (so that a later notify calls whom
\* it would have called), and a later disable of any plugin returns what it
\* would have returned without the failed call.
C11_FailedEnableLeavesNoTrace ==
  [][(plast'.op = "enable" /\ plast'.called = "raise")
       => /\ plast'.ret = "False"
          /\ enabled_plugins' = enabled_plugins
          /\ \A j \in PluginIds : \A do \in CallOutcomes :
               disable_plugin(RegAfter, j, do).ret = disable_plugin(Reg, j, do).ret]_vars

\* C11 amended: when the plugin's enable() raises, enable(id) returns false,
\* the enabled set is what it was, and the registry is the one a load(id)
\* alone would have left: loaded gains id when the call loaded it on demand.
C11_FailedEnableIsALoad ==
  [][(plast'.op = "enable" /\ plast'.called = "raise")
       => /\ plast'.ret = "False"
          /\ enabled_plugins' = enabled_plugins
          /\ RegAfter = load_plugin(Reg, plast'.id, plast'.lo).r]_vars

\* an enable(id) that loaded the plugin, whose enable() raised, next to two
\* enabled plugins
C11_Witness ==
  /\ plast.op = "enable"
  /\ plast.called = "raise"
  /\ plast.built
  /\ plast.ret = "False"
  /\ plugins[plast.id] # None
  /\ Len(enabled_plugins) = 2

\* ------------------------------------------------------------------ C12
\* C12: a load(id) of an identifier already loaded returns the cached
\* instance, constructs nothing and leaves loaded as it was.
C12_LoadIsIdempotent ==
  [][(plast'.op = "load" /\ plugins[plast'.id] # None)
       => /\ plast'.inst = plugins[plast'.id]
          /\ ~plast'.built
          /\ plugins' = plugins
          /\ next_inst' = next_inst]_vars

\* a repeated load(id) of the plugin constructed first, after another plugin
\* was constructed
C12_Witness ==
  /\ plast.op = "load"
  /\ ~plast.built
  /\ plast.inst = 1
  /\ plugins[plast.id] = 1
  /\ next_inst >= 2

\* ------------------------------------------------------------------ C13
\* C13 as stated: disable(id) of an identifier not in enabled, loaded or
\* not, returns true without calling the plugin and changes nothing; of an
\* identifier in enabled it calls disable(), removes id exactly when that
\* returns true and returns false when it returns false or raises.
C13_DisableNotEnabledSucceeds ==
  [][plast'.op = "disable"
       => IF plast'.id \notin EnabledIds(enabled_plugins)
          THEN /\ plast'.ret = "True"
               /\ plast'.called = "none"
               /\ plugins' = plugins
               /\ enabled_plugins' = enabled_plugins
          ELSE /\ plast'.called = plast'.eo
               /\ plast'.called # "none"
               /\ (plast'.id \notin EnabledIds(enabled_plugins')) <=> (plast'.eo = "true")
               /\ plast'.ret = (IF plast'.eo = "true" THEN "True" ELSE "False")]_vars

\* C13 amended: disable(id) of a loaded identifier not in enabled returns
\* true, and of an identifier never loaded returns false, in both cases
\* without calling the plugin and changing nothing; of an identifier in
\* enabled it calls disable(), removes id exactly when that returns true and
\* returns false when it returns false or raises.
C13_DisableByState ==
  [][plast'.op = "disable"
       => IF plast'.id \notin EnabledIds(enabled_plugins)
          THEN /\ plast'.ret = (IF plugins[plast'.id] = None THEN "False" ELSE "True")
               /\ plast'.called = "none"
               /\ plugins' = plugins
               /\ enabled_plugins' = enabled_plugins
          ELSE /\ plast'.called = plast'.eo
               /\ plast'.called # "none"
               /\ (plast'.id \notin EnabledIds(enabled_plugins')) <=> (plast'.eo = "true")
               /\ enabled_plugins' = (IF plast'.eo = "true"
                                      THEN DictDel(enabled_plugins, plast'.id)
                                      ELSE enabled_plugins)
               /\ plast'.ret = (IF plast'.eo = "true" THEN "True" ELSE "False")]_vars

\* a disable(id) whose plugin raised and stays enabled next to another one
C13_Witness ==
  /\ plast.op = "disable"
  /\ plast.called = "raise"
  /\ plast.ret = "False"
  /\ plast.id \in EnabledIds(enabled_plugins)
  /\ Len(enabled_plugins) = 2
  /\ \E j \in PluginIds : plugins[j] = None

\* ------------------------------------------------------------------ C14
\* C14: shutdown() returns without raising and calls on_shutdown() exactly
\* once on every plugin enabled when it started, whichever on_shutdown() or
\* disable() raised before.
C14_ShutdownReachesAll ==
  [][plast'.op = "shutdown"
       => /\ plast'.ret = "None"
          /\ Len(order') = Len(enabled_plugins)
          /\ \A i \in 1..Len(enabled_plugins) :
               CountIn(order', enabled_plugins[i].id) = 1]_vars

\* a shutdown of three plugins where the on_shutdown() of the first raised
\* and one processed before the last stayed enabled
C14_Witness ==
  /\ plast.op = "shutdown"
  /\ Len(order) = 3
  /\ order[1] \in plast.raisers
  /\ order[3] \notin plast.raisers
  /\ order[3] \notin EnabledIds(enabled_plugins)

\* ------------------------------------------------------------------ C15
\* C15: shutdown() calls disable() on every plugin enabled when it started,
\* also after an on_shutdown() that raised, so that enabled is empty
\* afterwards when every plugin's disable() returns true.
C15_ShutdownEmptiesEnabled ==
  [][(plast'.op = "shutdown" /\ plast'.alltrue) => enabled_plugins' = <<>>]_vars

\* ------------------------------------------------------------------ C16
\* the step is a call of one of ops (a call of the registry leaves last)
StepOf(ops) == last'.op \in ops /\ plast' = plast

\* C16: when exit() runs while the watcher is started, the hotkey listener
\* is stopped and every enabled plugin has received on_shutdown() when the
\* process terminates.
C16_ExitReachesPlugins ==
  [][(exited' /\ ~exited /\ monitor_alive)
       => /\ ~active'
          /\ \A i \in 1..Len(enabled_plugins) :
               CountIn(order', enabled_plugins[i].id) = 1]_vars

\* ------------------------------------------------------------------ C17
\* C17: there is never more than one sampling loop, and a start() while one
\* is running returns without raising and leaves the loop, its interval and
\* its last-seen content as they were.
C17_StartWhileRunningIsNoop ==
  [][/\ loops' <= 1
     /\ (StepOf({"start", "start_running"}) /\ monitor_alive)
          => /\ last'.op = "start_running"
             /\ last'.ret = None
             /\ monitor_alive'
             /\ loops' = loops
             /\ interval' = interval
             /\ last_content' = last_content]_vars

\* a start() with another interval on a loop that has seen a text
C17_Witness ==
  /\ last.op = "start_running"
  /\ last.arg # interval
  /\ loops = 1
  /\ last_content \in {TextContent(t) : t \in Texts}

\* ------------------------------------------------------------------ C18
\* C18: a stop() on a running loop returns with the loop signalled to exit,
\* so that it makes no further iteration, and the restart stop();
\* start(newInterval) leaves a loop running with the new interval.
C18_StopSignalsLoop ==
  [][/\ (StepOf({"stop"}) /\ monitor_alive)
          => (last'.ret = None /\ stop_set')
     /\ (StepOf({"restart"}) /\ monitor_alive)
          => (last'.ret = None /\ monitor_alive' /\ interval' = last'.arg)]_vars

\* ------------------------------------------------------------------ C19
\* C19: the watcher's stop() when no loop is running and the hotkey
\* manager's stop() when it is not active return without raising and change
\* nothing.
C19_StopWhenStoppedIsNoop ==
  [][((StepOf({"stop"}) /\ ~monitor_alive)
        \/ (StepOf({"hotkey_stop"}) /\ ~active))
       => /\ last'.ret = None
          /\ UNCHANGED <<monitor_alive, loops, interval, stop_set, last_content,
                         listener, active>>]_vars

\* ------------------------------------------------------------------ C20
\* the kind of the snapshot the running loop emitted last
LastEmittedKind == IF emitted THEN snap[Len(snap)].content_type ELSE "none"

\* C20 as stated: an iteration emits exactly when its read succeeded and no
\* snapshot was emitted since start, or the read is a text other than the
\* text of the last text snapshot emitted, or the read is an image.
C20_EmissionRule ==
  [][last'.op \in {"record", "tick"}
       => ((last'.op = "record")
            <=> /\ last'.read.kind # "none"
                /\ \/ ~emitted
                   \/ (last'.read.kind = "text" /\ last'.read.value # last_text)
                   \/ last'.read.kind = "image")]_vars

\* C20 amended: an iteration emits exactly when its read succeeded and no
\* snapshot was emitted since start or the last one emitted is an image, or
\* the read is a text other than the text read for the last text snapshot
\* emitted, or the read is an image.
C20_EmissionRuleAfterImage ==
  [][last'.op \in {"record", "tick"}
       => ((last'.op = "record")
            <=> /\ last'.read.kind # "none"
                /\ \/ ~emitted
                   \/ LastEmittedKind = "image"
                   \/ (last'.read.kind = "text" /\ last'.read.value # last_text)
                   \/ last'.read.kind = "image")]_vars

\* the text of the first snapshot emitted again after an image, and then
\* read once more without being emitted
C20_Witness ==
  /\ last.op = "tick"
  /\ last.read.kind = "text"
  /\ Len(snap) = 3
  /\ snap[1].content_type = "text"
  /\ snap[2].content_type = "image"
  /\ snap[3] = snap[1]

\* C21: a clipboard read that fails on an iteration of the watcher's loop,
\* whatever the exception, emits nothing, leaves history, redo_stack and
\* last_content as they were, and the loop is still running afterwards
C21_ReadErrorsAreNotFatal ==
  [][(last'.op \in {"tick", "read_error"} /\ last'.read = NoContent)
       => /\ history' = history
          /\ redo_stack' = redo_stack
          /\ last_content' = last_content
          /\ monitor_alive'
          /\ loops' = loops]_vars

\* C22: a record calls every subscribed listener exactly once, in
\* subscription order, whichever of them raise, and the loop is still
\* running afterwards
C22_ListenersAreIsolated ==
  [][last'.op = "record"
       => /\ last'.calls = callbacks
          /\ \A cb \in ListenerIds :
               CountIn(last'.calls, cb) = IF InSeq(callbacks, cb) THEN 1 ELSE 0
          /\ monitor_alive'
          /\ ~stop_set'
          /\ loops' = loops]_vars

\* C22: a record whose first listener raised and whose later listener was
\* called all the same
C22_Witness ==
  /\ last.op = "record"
  /\ Len(last.calls) >= 2
  /\ last.calls[1] \in last.raisers
  /\ last.calls[Len(last.calls)] \notin last.raisers
  /\ monitor_alive

\* C23: no callable is in the listener list twice, so a record calls it at
\* most once; subscribing a subscribed callable and unsubscribing one that is
\* not subscribed change nothing and return
C23_SubscriptionIsIdempotent ==
  [][/\ \A cb \in ListenerIds : CountIn(callbacks', cb) <= 1
     /\ last'.op = "record"
          => \A cb \in ListenerIds : CountIn(last'.calls, cb) <= 1
     /\ (last'.op = "add_listener" /\ InSeq(callbacks, last'.cb))
          => (callbacks' = callbacks /\ last'.ret = None)
     /\ (last'.op = "remove_listener" /\ ~InSeq(callbacks, last'.cb))
          => (callbacks' = callbacks /\ last'.ret = None)]_vars

\* C23: a callable subscribed a second time, after it had been unsubscribed
\* and subscribed again behind another one
C23_Witness ==
  /\ last.op = "add_listener"
  /\ last.n = 1
  /\ last.cb = "plugins"
  /\ callbacks = <<"window", "plugins">>

NameSet(c) == {c[i].name : i \in 1..Len(c)}
NameCount(c, n) == Cardinality({i \in 1..Len(c) : c[i].name = n})
\* the same key names, each as often
SameComponents(c1, c2) == \A n \in KeyNames : NameCount(c1, n) = NameCount(c2, n)

\* C24 as stated: every chord string with the same set of components as the
\* one normalized gets the same key
C24_SameSetSameKey ==
  hlast.op = "normalize"
    => \A c2 \in Chords :
         NameSet(c2) = NameSet(hlast.chord) => normalize_key_combo(c2) = hlast.key

\* C24: every chord string with the same components, each as often, in any
\* order, case and spacing, gets the key of the one normalized, and the key
\* normalizes to itself
C24_SameComponentsSameKey ==
  hlast.op = "normalize"
    => /\ \A c2 \in Chords :
            SameComponents(c2, hlast.chord) => normalize_key_combo(c2) = hlast.key
       /\ normalize_key_combo(hlast.key) = hlast.key

\* C24: "SHIFT + CTRL + C" normalized to "c+ctrl+shift"
C24_Witness ==
  /\ hlast.op = "normalize"
  /\ hlast.chord = <<[name |-> "shift", case |-> "upper", pad |-> TRUE],
                     [name |-> "ctrl", case |-> "upper", pad |-> TRUE],
                     [name |-> "c", case |-> "upper", pad |-> TRUE]>>
  /\ hlast.key = <<[name |-> "c", case |-> "lower", pad |-> FALSE],
                   [name |-> "ctrl", case |-> "lower", pad |-> FALSE],
                   [name |-> "shift", case |-> "lower", pad |-> FALSE]>>

\* a step of the HotkeyManager that logged one of ops
HStep(ops) == hlast'.op \in ops /\ last' = last

\* C25: a register that returns True leaves exactly one binding for the
\* normalized key, the callback given, and adds an entry only for a new key;
\* a key-down that starts a thread starts the callback bound to the
\* combination at that moment
C25_RegisterOverwrites ==
  [][/\ (HStep({"register"}) /\ hlast'.ret = PyTrue)
          => /\ Cardinality({i \in 1..Len(hotkeys') : hotkeys'[i].id = hlast'.key}) = 1
             /\ DictGet(hotkeys', hlast'.key) = hlast'.cb
             /\ Len(hotkeys') = Len(hotkeys)
                                  + (IF DictHas(hotkeys, hlast'.key) THEN 0 ELSE 1)
     /\ (HStep({"press"}) /\ hlast'.started)
          => /\ DictHas(hotkeys, hlast'.combo)
             /\ hlast'.cb = DictGet(hotkeys, hlast'.combo)
             /\ workers' = Append(workers, [cb |-> hlast'.cb,
                                            combo |-> hlast'.combo,
                                            inline |-> FALSE])]_vars

\* C25: one binding, whose combination started f1 earlier and starts f2 now
C25_Witness ==
  /\ hlast.op = "press"
  /\ hlast.started
  /\ hlast.cb = "f2"
  /\ Len(hotkeys) = 1
  /\ Len(workers) = 2
  /\ workers[1].cb = "f1"
  /\ workers[1].combo = hlast.combo

\* the keys held are those of key combination id and no other
HeldIs(keys, id) ==
  /\ {Lower(k) : k \in keys} = {id[i] : i \in 1..Len(id)}
  /\ Cardinality(keys) = Len(id)

\* C26: the key-down that completes the keys of a bound chord, with no other
\* key held and the keys in the case the events report, looks up the
\* normalized key and starts the callback
C26_PressedChordMatches ==
  [][(HStep({"press"}) /\ hlast'.k # NoKey)
       => \A i \in 1..Len(hotkeys) :
            HeldIs(current_keys', hotkeys[i].id)
              => hlast'.combo = hotkeys[i].id /\ hlast'.started]_vars

\* C27: no handler waits for a callback, and with callbacks running every
\* key-down and key-up is handled and updates current_keys
C27_DispatchDoesNotWait ==
  /\ [](active => \A k \in KeyStrings : ENABLED OnRelease(k))
  /\ [][/\ ~Blocked'
        /\ (HStep({"press"}) /\ hlast'.k # NoKey)
             => current_keys' = current_keys \cup {hlast'.k}
        /\ HStep({"release"}) => current_keys' = current_keys \ {hlast'.k}]_vars

\* C27: shift went down and was recorded while the callback of ctrl+c ran
C27_Witness ==
  /\ hlast.op = "press"
  /\ hlast.k = [name |-> "shift", case |-> "lower", pad |-> FALSE]
  /\ hlast.k \in current_keys
  /\ ~hlast.started
  /\ Len(workers) = 1
  /\ NameSet(workers[1].combo) = {"c", "ctrl"}

\* C28: the end of a thread whose callback raised leaves the bindings, the
\* keys held and the listener as they were, and a key-down whose combination
\* is bound starts a thread whatever happened before
C28_CallbackErrorsStayInWorker ==
  [][/\ (HStep({"worker_end"}) /\ hlast'.raised)
          => /\ hotkeys' = hotkeys
             /\ current_keys' = current_keys
             /\ active' = active
             /\ listener' = listener
     /\ (HStep({"press"}) /\ hlast'.k # NoKey /\ DictHas(hotkeys, hlast'.combo))
          => hlast'.started /\ Len(workers') = Len(workers) + 1]_vars

\* C28: a callback raised and the next key-down started it again
C28_Witness ==
  /\ hlast.op = "press"
  /\ hlast.started
  /\ hlast.after_raise
  /\ active

\* the list with position hi taken out, the other entries in their order
Without(h1, h, hi) ==
  /\ Len(h1) = Len(h) - 1
  /\ \A j \in 1..Len(h1) : h1[j] = IF j < hi THEN h[j] ELSE h[j + 1]

\* C29: _delete_selected and _move_selected_to_top with a row outside
\* 0..len(history)-1 return with history as it was; with a row inside,
\* delete takes out exactly the entry of that row and move-to-top makes it
\* the last entry, the others keeping their order and the length staying
C29_EditsRejectBadIndex ==
  [][last'.op \in {"delete", "totop"}
       => LET i == last'.idx
              n == Len(history)
              hi == n - i
          IN /\ last'.ret = None
             /\ IF i >= 0 /\ i <= n - 1
                THEN /\ last'.arg = history[hi]
                     /\ last'.op = "delete" => Without(history', history, hi)
                     /\ last'.op = "totop"
                          => /\ Len(history') = n
                             /\ history'[n] = history[hi]
                             /\ Without(Front(history'), history, hi)
                ELSE history' = history /\ last'.arg = None]_vars

\* C29: a delete with the row just past the end of a history of three
\* entries, which is as it was
C29_Witness ==
  /\ last.op = "delete"
  /\ last.idx = 3
  /\ last.arg = None
  /\ Len(history) = 3

\* C30: delete, move-to-top and clear leave undo_stack and redo_stack as
\* they were; the copy commands, undo and redo leave history as it was
C30_EditsAndNavigationAreDisjoint ==
  [][/\ last'.op \in {"delete", "totop", "clear"}
          => undo_stack' = undo_stack /\ redo_stack' = redo_stack
     /\ last'.op \in {"copy", "paste", "undo", "redo"}
          => history' = history]_vars

\* C30: undo returned a snapshot that had been deleted from a history too
\* short to have evicted it
C30_Witness ==
  /\ last.op = "undo"
  /\ last.ret # None
  /\ ~InSeq(history, last.ret)
  /\ max_history = DefaultMaxHistory
  /\ history # <<>>

\* ------------------------------------------------------------------ C36
\* the commands of the core that write a snapshot's content to the clipboard
CoreWrites == CopyOps \cup {"undo", "redo"}

\* the last operation wrote text to the OS clipboard through copy_to_clipboard
CoreWroteText ==
  /\ last.op \in CoreWrites
  /\ last.op \in {"undo", "redo"} => last.ret # None
  /\ clipboard.kind = "text"

\* C36: a watcher tick that reads the text the core itself has just written
\* (by copy_to_clipboard, undo or redo) appends nothing to history and leaves
\* redo_stack as it was.
C36_OwnWritesAreNotCaptured ==
  [][(CoreWroteText /\ StepOf({"record", "tick"}) /\ last'.read = clipboard)
       => history' = history /\ redo_stack' = redo_stack]_vars

\* ------------------------------------------------------------------ C37
\* C37: every undo() on a non-empty undo stack leaves the stack strictly
\* shorter, so n consecutive calls empty a stack of length n.
C37_UndoShortens ==
  [][(StepOf({"undo"}) /\ undo_stack # <<>>)
       => Len(undo_stack') < Len(undo_stack)]_vars

\* ------------------------------------------------------------------ C38
\* C38 as stated: an undo() that returns nothing leaves undo_stack and
\* redo_stack as they were.
C38_NothingMeansUnchanged ==
  [][(StepOf({"undo"}) /\ last'.ret = None)
       => undo_stack' = undo_stack /\ redo_stack' = redo_stack]_vars

\* C38: an undo() that returns nothing either found undo_stack empty and left
\* both stacks as they were, or found exactly one entry and moved it to
\* redo_stack.
C38_NothingMeansEmptyOrLast ==
  [][(StepOf({"undo"}) /\ last'.ret = None)
       => \/ /\ undo_stack = <<>>
             /\ undo_stack' = undo_stack
             /\ redo_stack' = redo_stack
          \/ /\ Len(undo_stack) = 1
             /\ undo_stack' = <<>>
             /\ redo_stack' = Append(redo_stack, undo_stack[1])]_vars

\* C38: an undo() of a one-entry stack that returned nothing, the entry now
\* on redo_stack
C38_Witness ==
  /\ last.op = "undo"
  /\ last.ret = None
  /\ last.n = 1
  /\ undo_stack = <<>>
  /\ redo_stack # <<>>

\* ------------------------------------------------------------------ C35
\* C35: every key-down after which the combination of the keys held is a key
\* of hotkeys starts one more thread running the callback bound to it, also
\* when the key was already held and when threads of the same callback run.
C35_NoDebounce ==
  [][(HStep({"press"}) /\ hlast'.k # NoKey
        /\ DictHas(hotkeys, current_combo(current_keys')))
       => /\ Len(workers') = Len(workers) + 1
          /\ Top(workers').cb = DictGet(hotkeys, current_combo(current_keys'))
          /\ \A i \in 1..Len(workers) : workers'[i] = workers[i]]_vars

\* C35: a repeated key-down of a held key started the callback while the
\* thread of an earlier dispatch of the same combination still runs
C35_Witness ==
  /\ hlast.op = "press"
  /\ hlast.repeat
  /\ hlast.started
  /\ Len(workers) = 2
  /\ workers[1].cb = workers[2].cb
  /\ workers[1].combo = workers[2].combo

\* ------------------------------------------------------------------ C39
\* the keys of key combination id
Components(id) == {id[i] : i \in 1..Len(id)}

\* C39: a key-down starts at most one thread; it starts one only when the
\* keys held are exactly the keys of a binding, whose callback it runs; with
\* a key more or a key less than every binding it starts none.
C39_ExactMatch ==
  [][HStep({"press"})
       => /\ workers' = workers \/ (Len(workers') = Len(workers) + 1
                                      /\ Front(workers') = workers)
          /\ workers' # workers
               => \E i \in 1..Len(hotkeys) :
                    /\ Components(hotkeys[i].id) = current_keys'
                    /\ Top(workers').cb = hotkeys[i].inst
          /\ (\A i \in 1..Len(hotkeys) :
                 Components(hotkeys[i].id) # current_keys')
               => workers' = workers /\ ~hlast'.started]_vars

\* C39: c went down with ctrl and shift held while only ctrl+c is bound, and
\* nothing was started
C39_Witness ==
  /\ hlast.op = "press"
  /\ hlast.k = [name |-> "c", case |-> "lower", pad |-> FALSE]
  /\ ~hlast.started
  /\ Cardinality(current_keys) = 3
  /\ Len(hotkeys) = 1
  /\ Components(hotkeys[1].id) \subseteq current_keys
  /\ workers = <<>>

\* ------------------------------------------------------------------ C31
\* C31: in every iteration that emits a snapshot the first call is
\* _add_to_history, so that the listeners find the snapshot newest in history
\* and redo_stack empty; then the registry's notify is called, then the
\* window's listener; and one loop makes all these calls before its next
\* iteration.
C31_PipelineOrder ==
  [][/\ loops' <= 1
     /\ (last'.op = "record" /\ Len(snap') = Len(snap) + 1)
          => /\ loops = 1
             /\ last'.events = <<"record", "plugins", "window">>
             /\ last'.htop = Len(snap')
             /\ last'.rlen = 0
             /\ order' = [i \in 1..Len(enabled_plugins) |-> enabled_plugins[i].id]]_vars

\* C31: a record that found an entry on redo_stack, with two plugins enabled,
\* the first of which raised
C31_Witness ==
  /\ last.op = "record"
  /\ last.rtop # None
  /\ redo_stack = <<>>
  /\ last.events = <<"record", "plugins", "window">>
  /\ Len(order) = 2
  /\ Len(last.acts) = 2
  /\ last.acts[1] = "raise"

\* ------------------------------------------------------------------ C32
\* C32: in a notify over the enabled plugins the first plugin receives the
\* item as recorded and every later one the item as the plugin before it
\* left it, whether that plugin returned or raised; the snapshot stored in
\* history is the item as the last plugin left it.
C32_FilterChain ==
  [][(last'.op = "record" /\ Len(snap') = Len(snap) + 1)
       => LET en == enabled_plugins
              seen == last'.seen
              acts == last'.acts
              item == NewItem(last'.read)
              k == Len(en)
          IN /\ Len(seen) = k
             /\ Len(acts) = k
             /\ \A i \in 1..k :
                  seen[i] = IF i = 1 THEN item ELSE Effect(acts[i - 1], seen[i - 1])
             /\ Top(history') = Len(snap')
             /\ snap'[Len(snap')] = IF k = 0 THEN item
                                     ELSE Effect(acts[k], seen[k])]_vars

\* C32: "a" was copied; the first plugin capitalized it and raised, the
\* second received "A" and lower-cased it, and history shows "a"
C32_Witness ==
  /\ last.op = "record"
  /\ last.read = TextContent("a")
  /\ last.acts = <<"rewrite_raise", "fold">>
  /\ last.seen[2].content = "A"
  /\ history # <<>>
  /\ snap[Top(history)].content = "a"

\* ------------------------------------------------------------------ C33
\* no snapshot occurs twice in history
NoDuplicates(h) == \A i, j \in 1..Len(h) : h[i] = h[j] => i = j

\* C33: whenever neither _add_to_history nor a handler of the list is in
\* progress, history holds at most max_history entries and no snapshot twice.
C33_BoundSurvivesRace ==
  (adding.pc = "idle" /\ editing.pc = "idle")
    => Len(history) <= max_history /\ NoDuplicates(history)

\* ------------------------------------------------------------------ C34
\* C34: a notify that ends, whatever enable_plugin and disable_plugin did
\* meanwhile, has not raised and has called on_clipboard_change exactly once
\* on every plugin that was enabled from its beginning to its end.
C34_NotifySurvivesRegistryChange ==
  [][(notifying.pc = "iter" /\ notifying'.pc = "idle")
       => /\ plast'.ret # "Raised"
          /\ \A p \in notifying.init \cap EnabledIds(enabled_plugins) :
               CountIn(order', p) = 1]_vars

\* ------------------------------------------------------------------ C40
\* C40: with no call of load_plugin or enable_plugin in progress, every
\* plugin loaded has been constructed once, two threads whose last calls
\* were for the same identifier got the same instance, and every entry of
\* enabled_plugins is the instance self.plugins holds.
C40_OneInstanceUnderRace ==
  (\A t \in Threads : loading[t].pc = "idle")
    => /\ next_inst = Cardinality({id \in PluginIds : plugins[id] # None})
       /\ \A t, u \in Threads :
            (loading[t].id # "" /\ loading[t].id = loading[u].id)
              => loading[t].inst = loading[u].inst
       /\ \A i \in 1..Len(enabled_plugins) :
            enabled_plugins[i].inst = plugins[enabled_plugins[i].id]

====
